---- MODULE Spec2Model ----
(***************************************************************************)
(* Detection pipeline of the Parkinson voice screening application:        *)
(* app/utils.py (artifact load, heuristic scorer, detect_parkinson) and    *)
(* app/views.py (values_model/values_scaler load, values_predict).         *)
(*                                                                         *)
(* Numbers are fixed point.  A probability p is the integer p * 100000     *)
(* (0.65 is 65000, 1.0 is 100000), a confidence c is the integer c * 100   *)
(* (70.0 percent is 7000), RMS energy is in thousandths (0.02 is 20),      *)
(* spectral centroid is in Hz and MFCC means are in MFCC units.            *)
(***************************************************************************)
EXTENDS Integers, Sequences, FiniteSets, TLC

VARIABLES
    utils_imported,   \* app/utils.py has been imported (lines 17-34 have run)
    model,            \* utils.model:  "None" or "loaded"
    scaler,           \* utils.scaler: "None" or "loaded"
    views_imported,   \* app/views.py has been imported (lines 453-468 have run)
    values_model,     \* views.values_model:  "None" or "loaded"
    values_scaler,    \* views.values_scaler: "None" or "loaded"
    req,              \* req[w]: the request worker w is serving
    ml_failed,        \* "ML prediction failed" has been logged (utils.py:173)
    hvec,             \* argument of a direct call of fallback_detection
    hres,             \* what that call did (done, raised, returned value)
    files,            \* the files of MEDIA_ROOT/temp
    renames,          \* alternative names default_storage.save has handed out
    io,               \* io[w]: the files the request of worker w wrote and read
    hospitals,        \* the Hospital table: hospitals[id] is the rating
    detections,       \* the DetectionHistory table, a row per id
    suggested,        \* the SuggestedHospital table
    emails,           \* the EmailReport table
    resp,             \* resp[w]: the JSON response of the request of worker w
    hcall,            \* a direct call of suggest_top_hospitals and
                      \* save_suggested_hospitals
    values_artifact,  \* what the loaded values scaler and model compute
    posted,           \* posted[w]: the form data of a values_predict request
    measured,         \* the librosa measurements of a direct extract_features
    seed,             \* seed[c]: a call of initialize_hospitals
    page              \* a call of history, detection_detail, download_report

vars == <<utils_imported, model, scaler, views_imported, values_model,
          values_scaler, req, ml_failed, hvec, hres, files, renames, io,
          hospitals, detections, suggested, emails, resp, hcall,
          values_artifact, posted, measured, seed, page>>

file_vars == <<files, renames, io>>
store_vars == <<hospitals, detections, suggested, emails, resp>>
extras == <<values_artifact, posted, measured, seed, page>>
storage == <<file_vars, store_vars, hcall, extras>>

----------------------------------------------------------------------------
(* Program constants.                                                      *)

\* 1.0, the clamp of the heuristic score (utils.py:135)
ONE == 100000
\* probability = 0.5 when fewer than 18 features (utils.py:106)
NEUTRAL == 50000
\* return 0.5 of the except branch (utils.py:141)
NEUTRAL_ON_ERROR == 50000
\* len(features) < 18 (utils.py:104)
N_FEATURES == 18
\* features[:13] (utils.py:109)
N_MFCC == 13
\* rms < 0.02 (utils.py:123), in thousandths
RMS_LOW == 20
\* score += 0.3 (utils.py:124)
RMS_WEIGHT == 30000
\* spec_centroid < 2000 (utils.py:127)
CENTROID_LOW == 2000
\* spec_centroid > 5000 (utils.py:127)
CENTROID_HIGH == 5000
\* score += 0.2 (utils.py:128)
CENTROID_WEIGHT == 20000
\* mfcc_var > 50 (utils.py:132)
MFCC_STD_HIGH == 50
\* score += 0.2 (utils.py:133)
MFCC_WEIGHT == 20000
\* threshold = 0.65 (utils.py:182)
threshold == 65000
\* threshold = 0.75 (views.py:521)
values_threshold == 75000

----------------------------------------------------------------------------
(* Elements of a feature vector.  A numpy array of floats holds numbers    *)
(* and possibly NaN; a plain list handed to fallback_detection may also    *)
(* hold an object that cannot be compared with a number (None, a str).     *)

Num(v) == [k |-> "num", v |-> v]
NaN == [k |-> "nan", v |-> 0]
Obj == [k |-> "obj", v |-> 0]

IsNum(e) == e.k = "num"
IsObj(e) == e.k = "obj"

\* x < c and x > c of Python: a TypeError for an object, False for NaN.
Less(e, c) == IsNum(e) /\ e.v < c
Greater(e, c) == IsNum(e) /\ e.v > c

RECURSIVE SumSeq(_)
SumSeq(s) == IF s = <<>> THEN 0 ELSE Head(s) + SumSeq(Tail(s))

Values(s) == [i \in 1..Len(s) |-> s[i].v]
Squares(s) == [i \in 1..Len(s) |-> s[i] * s[i]]

\* np.std(xs) > c for numbers xs (population standard deviation):
\* sqrt(sum((x - mean)^2) / n) > c  <=>  n*sum(x^2) - sum(x)^2 > c^2 * n^2.
StdExceeds(xs, c) ==
    LET n == Len(xs)
    IN  n * SumSeq(Squares(xs)) - SumSeq(xs) * SumSeq(xs) > c * c * n * n

Min(a, b) == IF a < b THEN a ELSE b

Returned(v) == [exc |-> FALSE, val |-> v]
Raised == [exc |-> TRUE, val |-> 0]
Raises(r) == r.exc

\* rms <= 0.02 in place of rms < 0.02.
low_energy_inclusive(rms) == IsNum(rms) /\ rms.v <= RMS_LOW

\* if rms < 0.02 (utils.py:123)
low_energy(rms) == Less(rms, RMS_LOW)

\* if spec_centroid < 2000 or spec_centroid > 5000 (utils.py:127)
spectral_anomaly(spec_centroid) ==
    Less(spec_centroid, CENTROID_LOW) \/ Greater(spec_centroid, CENTROID_HIGH)

\* A variance rule that fires whatever the MFCC means are.
high_variance_always(mfcc_features) == TRUE

\* mfcc_var = np.std(mfcc_features); if mfcc_var > 50 (utils.py:131-132):
\* NaN (so False) if an element is NaN.
high_variance(mfcc_features) ==
    /\ \A i \in 1..Len(mfcc_features) : IsNum(mfcc_features[i])
    /\ StdExceeds(Values(mfcc_features), MFCC_STD_HIGH)

\* What raises inside the else branch (utils.py:109-135): comparing an object
\* with a number (rms, spec_centroid) and np.std over a list holding an object.
\* zcr = features[13] is only read; features[16] and features[17] are not used.
rules_raise(features) ==
    \/ IsObj(features[15])
    \/ IsObj(features[16])
    \/ \E i \in 1..N_MFCC : IsObj(features[i])

\* The else branch without min(score, 1.0), the rules weighing 3, 2 and 2.
heuristic_score_unclamped(features) ==
    (IF low_energy(features[15]) THEN 10 * RMS_WEIGHT ELSE 0)
    + (IF spectral_anomaly(features[16]) THEN 10 * CENTROID_WEIGHT ELSE 0)
    + (IF high_variance(SubSeq(features, 1, N_MFCC)) THEN 10 * MFCC_WEIGHT ELSE 0)

\* The else branch of fallback_detection (utils.py:108-135) when nothing raises.
\* Python indices 0-12, 14, 15 are 1-13, 15, 16 here.
heuristic_score(features) ==
    LET mfcc_features == SubSeq(features, 1, N_MFCC)
        rms == features[15]
        spec_centroid == features[16]
        s0 == 0
        s1 == IF low_energy(rms) THEN s0 + RMS_WEIGHT ELSE s0
        s2 == IF spectral_anomaly(spec_centroid) THEN s1 + CENTROID_WEIGHT ELSE s1
        s3 == IF high_variance(mfcc_features) THEN s2 + MFCC_WEIGHT ELSE s2
    IN  Min(s3, ONE)

\* The try block without the length check: features[15] of a vector of fewer
\* than 16 elements is an IndexError, a longer one is scored on its content.
fallback_body_no_length_check(features) ==
    IF Len(features) < 16 THEN Raised
    ELSE IF rules_raise(features) THEN Raised
         ELSE Returned(heuristic_score(features))

\* The try block of fallback_detection (utils.py:100-137).
fallback_body(features) ==
    IF Len(features) < N_FEATURES
    THEN Returned(NEUTRAL)
    ELSE IF rules_raise(features) THEN Raised
         ELSE Returned(heuristic_score(features))

\* fallback_detection without its try/except.
fallback_detection_unguarded(features) == fallback_body(features)

\* fallback_detection (utils.py:94-141): the try block, and 0.5 when it raises.
fallback_detection(features) ==
    LET r == fallback_body(features)
    IN  IF Raises(r) THEN Returned(NEUTRAL_ON_ERROR) ELSE r

----------------------------------------------------------------------------
(* Direct calls of fallback_detection: the vectors it is called with.       *)

\* Longest vector handed to fallback_detection.
MaxLen == 19

Zeros(n) == [i \in 1..n |-> 0]
Nums(xs) == [i \in 1..Len(xs) |-> Num(xs[i])]

\* 13 MFCC means with standard deviation 0, just under 50, exactly 50, just
\* over 50 and exactly 60 (deviations 125, -125, 25, -25 from a mean of 0 have
\* variance 32500 / 13 = 2500).
MfccFlat == Nums(Zeros(N_MFCC))
MfccStdBelow50 == Nums(<<124, -125, 25, -25>> \o Zeros(N_MFCC - 4))
MfccStd50 == Nums(<<125, -125, 25, -25>> \o Zeros(N_MFCC - 4))
MfccStdAbove50 == Nums(<<126, -125, 25, -25>> \o Zeros(N_MFCC - 4))
MfccStd60 == Nums(<<150, -150, 30, -30>> \o Zeros(N_MFCC - 4))
MfccWithObj == [MfccStd60 EXCEPT ![2] = Obj]
MfccWithNaN == [MfccStd60 EXCEPT ![2] = NaN]

MfccChoices == {MfccFlat, MfccStdBelow50, MfccStd50, MfccStdAbove50, MfccStd60,
                MfccWithObj, MfccWithNaN}
ZcrChoices == {Num(0), Obj}
RmsChoices == {Num(10), Num(19), Num(20), Num(21), NaN, Obj}
CentroidChoices == {Num(1000), Num(1999), Num(2000), Num(3000), Num(5000),
                    Num(5001), NaN, Obj}
TailChoices == {Num(0), Obj}
LenChoices == {0, N_MFCC, N_FEATURES - 1} \cup (N_FEATURES..MaxLen)

\* The first n elements of mfcc, zcr, rms, centroid, bandwidth, rolloff, extra...
MkVector(n, mfcc, zcr, rms, centroid, tail) ==
    LET full == mfcc \o <<zcr, rms, centroid, tail, tail>>
                \o [i \in 1..(MaxLen - N_FEATURES) |-> tail]
    IN  SubSeq(full, 1, n)

HeuristicInputs ==
    {MkVector(n, m, z, r, c, t) :
        n \in LenChoices, m \in MfccChoices, z \in ZcrChoices,
        r \in RmsChoices, c \in CentroidChoices, t \in TailChoices}

NoCall == [done |-> FALSE, exc |-> FALSE, val |-> 0]

\* A caller evaluates fallback_detection(hvec).
call_fallback_detection ==
    /\ ~hres.done
    /\ LET r == fallback_detection(hvec)
       IN  hres' = [done |-> TRUE, exc |-> r.exc, val |-> r.val]
    /\ UNCHANGED <<utils_imported, model, scaler, views_imported, values_model,
                   values_scaler, req, ml_failed, hvec>>

----------------------------------------------------------------------------
(* The process: module import, then requests served by worker threads.      *)

Workers == {"w1", "w2"}

AudioHandlers == {"upload_audio", "record_and_detect"}

\* What extract_features returns in the runs explored: 18 numbers on which the
\* heuristic scores 0.7 (all three rules), 0.5 (energy and centroid) and 0.
FeaturesAllRules == MkVector(N_FEATURES, MfccStd60, Num(0), Num(10), Num(1000), Num(0))
FeaturesTwoRules == MkVector(N_FEATURES, MfccFlat, Num(0), Num(10), Num(1000), Num(0))
FeaturesNoRule == MkVector(N_FEATURES, MfccFlat, Num(0), Num(21), Num(3000), Num(0))
ExtractedFeatures == {FeaturesAllRules, FeaturesTwoRules, FeaturesNoRule}

\* What predict_proba(...)[0][1] returns in the runs explored.  None is a
\* decimal tie of round(p * 100, 2), which on floats falls to either side.
ModelProbabilities == {12346, 65000, 66000, 75000, 75100}

\* The 22 posted values of values_predict: every one given, every one left out
\* (each then 0), or one that float() rejects.
ValuesForms == {"all_given", "one_missing", "all_missing", "one_invalid"}
ValuesOf(form) ==
    IF form = "all_given" THEN Nums([i \in 1..22 |-> i])
    ELSE IF form = "one_missing"
    THEN Nums([i \in 1..22 |-> IF i = 22 THEN 0 ELSE i])
    ELSE Nums(Zeros(22))

\* The number of the 22 names the form has a value for.
Supplied(form) ==
    IF form = "one_missing" THEN 21 ELSE IF form = "all_missing" THEN 0 ELSE 22

\* The classes model.predict can return (utils.py:169, views.py:517).
Predictions == {0, 1}

NoRequest ==
    [handler |-> "none", stage |-> "Idle", ext |-> "none", features |-> <<>>,
     inference |-> "none", fallback |-> FALSE, probability |-> 0,
     result |-> "none", confidence |-> 0, error |-> "none",
     after_failure |-> FALSE, supplied |-> 0, prediction |-> 0]

\* round(x, 2) of x = probability * 100, as a number of hundredths: the nearest,
\* a tie to the even one.
round2(probability) ==
    LET q == probability \div 10
        r == probability % 10
    IN  IF r > 5 \/ (r = 5 /\ q % 2 = 1) THEN q + 1 ELSE q

\* int(probability * 100 * 100) / 100 in place of round(probability * 100, 2).
confidence_truncated(probability) == probability \div 10

\* confidence = round(probability * 100, 2) (utils.py:189, views.py:527)
confidence_of(probability) == round2(probability)

\* probability >= threshold in place of probability > threshold.
label_inclusive(probability, thr) ==
    IF probability >= thr THEN "parkinson" ELSE "healthy"

\* if probability > threshold: result = 'parkinson' else: result = 'healthy'
\* (utils.py:184-187, views.py:522-525)
label_of(probability, thr) ==
    IF probability > thr THEN "parkinson" ELSE "healthy"

\* The try block of the module-level load (utils.py:23-34, views.py:459-468):
\* both files must exist; the model is loaded first, then the scaler; a load
\* that raises leaves what was assigned before it.
load_pair(model_exists, scaler_exists, model_loads, scaler_loads) ==
    IF model_exists /\ scaler_exists
    THEN IF model_loads
         THEN IF scaler_loads THEN <<"loaded", "loaded">> ELSE <<"loaded", "None">>
         ELSE <<"None", "None">>
    ELSE <<"None", "None">>

\* A file of MEDIA_ROOT/temp. Its stem is the name the request gave it:
\* "posted" is the name of an uploaded file (views.py:78), "recorded" the name
\* recorded_<second> of a recording (views.py:171-172). alt = 0 is that name
\* itself, alt = k > 0 the k-th alternative name default_storage.save made up
\* because the name was taken.
FileName(stem, alt, ext) == [stem |-> stem, alt |-> alt, ext |-> ext]
NoFile == FileName("none", 0, "none")

\* What a request has written and read: the content of the audio it posted,
\* the temporary file it saved, the file convert_webm_to_wav made, and the
\* file extract_features loaded.
NoIO == [content |-> "none", temp |-> NoFile, wav |-> NoFile, read |-> NoFile]

\* No response yet (views.py:116-123, 209-216, 558-565).
\* status is the HTTP status, error the 'error' of the JSON, feature the
\* position in VALUES_FEATURE_NAMES of the feature a 400 names, debug_error
\* what the text of the exception contains; email_returned and
\* email_delivered are what send_detection_report_email returned to the
\* handler and whether the mail left.
NoResponse ==
    [sent |-> FALSE, detection_id |-> 0, hospitals |-> {}, status |-> 0,
     error |-> "none", feature |-> 0, debug_error |-> {},
     email_returned |-> FALSE, email_delivered |-> FALSE]

\* No call of suggest_top_hospitals yet.
NoHospitalCall ==
    [done |-> FALSE, limit |-> 0, top |-> <<>>, detection_id |-> 0]

\* No form data posted (views.py:502-510).
NoPost == [given |-> {}, invalid |-> {}]

\* No measurements: extract_features has not been called directly.
NoMeasurement == [taken |-> FALSE]

\* No call of initialize_hospitals.
NoSeeding == [pc |-> "idle", staff |-> FALSE, via |-> "none", next |-> 0,
              status |-> 0]

\* No page requested.
NoPage == [done |-> FALSE]

\* The callers of initialize_hospitals.
Seeders == {"c1", "c2"}

NoExtras ==
    /\ values_artifact = <<>>
    /\ posted = [w \in Workers |-> NoPost]
    /\ measured = NoMeasurement
    /\ seed = [c \in Seeders |-> NoSeeding]
    /\ page = NoPage

\* Empty media directory and empty tables.
NoStorage ==
    /\ files = {}
    /\ renames = 0
    /\ io = [w \in Workers |-> NoIO]
    /\ hospitals = <<>>
    /\ detections = <<>>
    /\ suggested = {}
    /\ emails = {}
    /\ resp = [w \in Workers |-> NoResponse]
    /\ hcall = NoHospitalCall
    /\ NoExtras

Init ==
    /\ utils_imported = FALSE
    /\ model = "None"
    /\ scaler = "None"
    /\ views_imported = FALSE
    /\ values_model = "None"
    /\ values_scaler = "None"
    /\ req = [w \in Workers |-> NoRequest]
    /\ ml_failed = FALSE
    /\ hvec = <<>>
    /\ hres = NoCall
    /\ NoStorage

\* import app.utils (utils.py:17-34)
import_utils ==
    /\ ~utils_imported
    /\ utils_imported' = TRUE
    /\ \E model_exists, scaler_exists, model_loads, scaler_loads \in BOOLEAN :
         LET pair == load_pair(model_exists, scaler_exists, model_loads, scaler_loads)
         IN  model' = pair[1] /\ scaler' = pair[2]
    /\ UNCHANGED <<views_imported, values_model, values_scaler, req, ml_failed,
                   hvec, hres>>

\* import app.views (views.py:16-19 imports app.utils; views.py:453-468)
import_views ==
    /\ utils_imported
    /\ ~views_imported
    /\ views_imported' = TRUE
    /\ \E model_exists, scaler_exists, model_loads, scaler_loads \in BOOLEAN :
         LET pair == load_pair(model_exists, scaler_exists, model_loads, scaler_loads)
         IN  values_model' = pair[1] /\ values_scaler' = pair[2]
    /\ UNCHANGED <<utils_imported, model, scaler, req, ml_failed, hvec, hres>>

Globals == <<utils_imported, model, scaler, views_imported, values_model,
             values_scaler>>

Set(w, r) == req' = [req EXCEPT ![w] = r]
Fail(w, kind) == Set(w, [req[w] EXCEPT !.stage = "Failed", !.error = kind])

\* upload_audio up to the call of detect_parkinson (views.py:66-85, 124-128)
upload_audio(w) ==
    /\ views_imported
    /\ req[w].stage = "Idle"
    /\ \/ \E ext \in {"wav", "webm"} :
            Set(w, [NoRequest EXCEPT !.handler = "upload_audio",
                                     !.stage = "Received", !.ext = ext,
                                     !.after_failure = ml_failed])
       \/ Set(w, [NoRequest EXCEPT !.handler = "upload_audio",
                                   !.stage = "Failed", !.error = "invalid_form"])
    /\ UNCHANGED <<Globals, ml_failed, hvec, hres>>

\* record_and_detect up to the call of detect_parkinson (views.py:153-178)
record_and_detect(w) ==
    /\ views_imported
    /\ req[w].stage = "Idle"
    /\ \/ Set(w, [NoRequest EXCEPT !.handler = "record_and_detect",
                                   !.stage = "Received", !.ext = "webm",
                                   !.after_failure = ml_failed])
       \/ Set(w, [NoRequest EXCEPT !.handler = "record_and_detect",
                                   !.stage = "Failed", !.error = "no_audio"])
    /\ UNCHANGED <<Globals, ml_failed, hvec, hres>>

\* detect_parkinson: if audio_file_path.endswith('.webm') (utils.py:154-159)
detect_parkinson(w) ==
    /\ req[w].handler \in AudioHandlers
    /\ req[w].stage = "Received"
    /\ Set(w, [req[w] EXCEPT !.stage = IF req[w].ext = "webm" THEN "Normalizing"
                                       ELSE "Extracting"])
    /\ UNCHANGED <<Globals, ml_failed, hvec, hres>>

\* convert_webm_to_wav that logs a failure of ffmpeg and returns webm_path.
convert_webm_to_wav_lenient(w) ==
    /\ req[w].stage = "Normalizing"
    /\ \/ Set(w, [req[w] EXCEPT !.stage = "Extracting"])
       \/ Set(w, [req[w] EXCEPT !.stage = "Extracting", !.error = "conversion"])
    /\ UNCHANGED <<Globals, ml_failed, hvec, hres>>

\* convert_webm_to_wav (utils.py:72-91): ffmpeg succeeds, or it raises.
convert_webm_to_wav(w) ==
    /\ req[w].stage = "Normalizing"
    /\ \/ Set(w, [req[w] EXCEPT !.stage = "Extracting"])
       \/ Fail(w, "conversion")
    /\ UNCHANGED <<Globals, ml_failed, hvec, hres>>

\* extract_features (utils.py:37-69): 18 values, or it raises.
extract_features(w) ==
    /\ req[w].stage = "Extracting"
    /\ \/ \E features \in ExtractedFeatures :
            Set(w, [req[w] EXCEPT !.stage = "Classifying", !.features = features])
       \/ Fail(w, "extraction")
    /\ UNCHANGED <<Globals, ml_failed, hvec, hres>>

\* if model is not None or scaler is not None.
model_backed_either == model # "None" \/ scaler # "None"

\* if model is not None and scaler is not None (utils.py:165)
model_backed == model # "None" /\ scaler # "None"

\* The heuristic branch of detect_parkinson: probability = fallback_detection(
\* features) (utils.py:175, 179); an exception leaving it would leave
\* detect_parkinson too (utils.py:197-199).
use_fallback(w, inference) ==
    LET r == fallback_detection(req[w].features)
    IN  IF Raises(r)
        THEN Fail(w, "detection")
        ELSE Set(w, [req[w] EXCEPT !.stage = "Thresholding",
                                   !.inference = inference, !.fallback = TRUE,
                                   !.probability = r.val])

\* detect_parkinson where a failed inference fails the request.
classify_no_fallthrough(w) ==
    /\ req[w].handler \in AudioHandlers
    /\ req[w].stage = "Classifying"
    /\ IF model_backed
       THEN \/ /\ \E p \in ModelProbabilities, prediction \in Predictions :
                    Set(w, [req[w] EXCEPT !.stage = "Thresholding",
                                          !.inference = "ok", !.probability = p,
                                  !.prediction = prediction])
               /\ UNCHANGED ml_failed
            \/ /\ Fail(w, "detection")
               /\ ml_failed' = TRUE
       ELSE /\ use_fallback(w, "none")
            /\ UNCHANGED ml_failed
    /\ UNCHANGED <<Globals, hvec, hres>>

\* detect_parkinson that looks for the artifact files again when it has no model.
classify_reloading(w) ==
    /\ req[w].handler \in AudioHandlers
    /\ req[w].stage = "Classifying"
    /\ IF model_backed
       THEN /\ \E p \in ModelProbabilities, prediction \in Predictions :
                 Set(w, [req[w] EXCEPT !.stage = "Thresholding",
                                       !.inference = "ok", !.probability = p,
                                  !.prediction = prediction])
            /\ UNCHANGED <<ml_failed, model, scaler>>
       ELSE /\ use_fallback(w, "none")
            /\ \E found \in BOOLEAN :
                 LET pair == load_pair(found, found, TRUE, TRUE)
                 IN  model' = pair[1] /\ scaler' = pair[2]
            /\ UNCHANGED ml_failed
    /\ UNCHANGED <<utils_imported, views_imported, values_model, values_scaler,
                   hvec, hres>>

\* detect_parkinson: the model if there is one, the heuristic when there is none
\* or when scaling or inference raises (utils.py:164-179).
classify(w) ==
    /\ req[w].handler \in AudioHandlers
    /\ req[w].stage = "Classifying"
    /\ IF model_backed
       THEN \/ /\ \E p \in ModelProbabilities, prediction \in Predictions :
                    Set(w, [req[w] EXCEPT !.stage = "Thresholding",
                                          !.inference = "ok", !.probability = p,
                                  !.prediction = prediction])
               /\ UNCHANGED ml_failed
            \/ /\ use_fallback(w, "raised")
               /\ ml_failed' = TRUE
       ELSE /\ use_fallback(w, "none")
            /\ UNCHANGED ml_failed
    /\ UNCHANGED <<Globals, hvec, hres>>

\* detect_parkinson labelling with the class model.predict returned.
threshold_audio_by_class(w) ==
    /\ req[w].handler \in AudioHandlers
    /\ req[w].stage = "Thresholding"
    /\ Set(w, [req[w] EXCEPT
                 !.stage = "Completed",
                 !.result = IF req[w].inference = "ok"
                            THEN IF req[w].prediction = 1 THEN "parkinson"
                                 ELSE "healthy"
                            ELSE label_of(req[w].probability, threshold),
                 !.confidence = confidence_of(req[w].probability)])
    /\ UNCHANGED <<Globals, ml_failed, hvec, hres>>

\* detect_parkinson: threshold, label, confidence, return (utils.py:181-196)
threshold_audio(w) ==
    /\ req[w].handler \in AudioHandlers
    /\ req[w].stage = "Thresholding"
    /\ Set(w, [req[w] EXCEPT
                 !.stage = "Completed",
                 !.result = label_of(req[w].probability, threshold),
                 !.confidence = confidence_of(req[w].probability)])
    /\ UNCHANGED <<Globals, ml_failed, hvec, hres>>

\* if not values_model and not values_scaler.
values_unavailable_both == values_model = "None" /\ values_scaler = "None"

\* if not values_model or not values_scaler (views.py:493)
values_unavailable == values_model = "None" \/ values_scaler = "None"

\* values_predict is entered (views.py:488-492)
values_predict(w) ==
    /\ views_imported
    /\ req[w].stage = "Idle"
    /\ Set(w, [NoRequest EXCEPT !.handler = "values_predict",
                                !.stage = "Received",
                                !.after_failure = ml_failed])
    /\ UNCHANGED <<Globals, ml_failed, hvec, hres>>

\* values_predict: the availability guard and the 22 posted values
\* (views.py:493-510)
values_collect(w) ==
    /\ req[w].handler = "values_predict"
    /\ req[w].stage = "Received"
    /\ IF values_unavailable
       THEN Fail(w, "unavailable")
       ELSE \E form \in ValuesForms :
              IF form = "one_invalid"
              THEN Fail(w, "invalid_value")
              ELSE Set(w, [req[w] EXCEPT !.stage = "Classifying",
                                         !.features = ValuesOf(form),
                                         !.supplied = Supplied(form)])
    /\ UNCHANGED <<Globals, ml_failed, hvec, hres>>

\* values_predict: scale and predict, or an exception caught at the end
\* (views.py:512-519, 567-573)
values_classify(w) ==
    /\ req[w].handler = "values_predict"
    /\ req[w].stage = "Classifying"
    /\ \/ \E p \in ModelProbabilities, prediction \in Predictions :
            Set(w, [req[w] EXCEPT !.stage = "Thresholding",
                                  !.inference = "ok", !.probability = p,
                                  !.prediction = prediction])
       \/ Set(w, [req[w] EXCEPT !.stage = "Failed", !.inference = "raised",
                                !.error = "prediction"])
    /\ UNCHANGED <<Globals, ml_failed, hvec, hres>>

\* values_predict deciding at the audio threshold 0.65.
threshold_values_at_audio_threshold(w) ==
    /\ req[w].handler = "values_predict"
    /\ req[w].stage = "Thresholding"
    /\ Set(w, [req[w] EXCEPT
                 !.stage = "Completed",
                 !.result = label_of(req[w].probability, threshold),
                 !.confidence = confidence_of(req[w].probability)])
    /\ UNCHANGED <<Globals, ml_failed, hvec, hres>>

\* values_predict: threshold, label, confidence (views.py:521-527)
threshold_values(w) ==
    /\ req[w].handler = "values_predict"
    /\ req[w].stage = "Thresholding"
    /\ Set(w, [req[w] EXCEPT
                 !.stage = "Completed",
                 !.result = label_of(req[w].probability, values_threshold),
                 !.confidence = confidence_of(req[w].probability)])
    /\ UNCHANGED <<Globals, ml_failed, hvec, hres>>

\* A handler that runs a failed request again.
respond_retrying(w) ==
    /\ req[w].stage \in {"Completed", "Failed"}
    /\ IF req[w].stage = "Failed" /\ req[w].ext # "none"
       THEN Set(w, [req[w] EXCEPT !.stage = "Received", !.error = "none"])
       ELSE Set(w, NoRequest)
    /\ UNCHANGED <<Globals, ml_failed, hvec, hres>>

\* The response is returned and the worker takes the next request
\* (views.py:116-123, 144-148, 209-216, 232-236, 558-565, 569-573).
respond(w) ==
    /\ req[w].stage \in {"Completed", "Failed"}
    /\ Set(w, NoRequest)
    /\ UNCHANGED <<Globals, ml_failed, hvec, hres>>

Next ==
    \/ import_utils /\ UNCHANGED storage
    \/ import_views /\ UNCHANGED storage
    \/ \E w \in Workers : upload_audio(w) /\ UNCHANGED storage
    \/ \E w \in Workers : record_and_detect(w) /\ UNCHANGED storage
    \/ \E w \in Workers : detect_parkinson(w) /\ UNCHANGED storage
    \/ \E w \in Workers : convert_webm_to_wav(w) /\ UNCHANGED storage
    \/ \E w \in Workers : extract_features(w) /\ UNCHANGED storage
    \/ \E w \in Workers : classify(w) /\ UNCHANGED storage
    \/ \E w \in Workers : threshold_audio(w) /\ UNCHANGED storage
    \/ \E w \in Workers : values_predict(w) /\ UNCHANGED storage
    \/ \E w \in Workers : values_collect(w) /\ UNCHANGED storage
    \/ \E w \in Workers : values_classify(w) /\ UNCHANGED storage
    \/ \E w \in Workers : threshold_values(w) /\ UNCHANGED storage
    \/ \E w \in Workers : respond(w) /\ UNCHANGED storage

Spec == Init /\ [][Next]_vars

\* Direct calls of fallback_detection, one per vector of HeuristicInputs.
InitHeuristic ==
    /\ utils_imported = TRUE
    /\ model = "None"
    /\ scaler = "None"
    /\ views_imported = FALSE
    /\ values_model = "None"
    /\ values_scaler = "None"
    /\ req = [w \in Workers |-> NoRequest]
    /\ ml_failed = FALSE
    /\ hvec \in HeuristicInputs
    /\ hres = NoCall
    /\ NoStorage

NextHeuristic == call_fallback_detection /\ UNCHANGED storage

SpecHeuristic == InitHeuristic /\ [][NextHeuristic]_vars

----------------------------------------------------------------------------
(* The audio handlers and the files of MEDIA_ROOT/temp.                     *)

\* Alternative names default_storage.save may make up.
MaxRenames == 1

\* What an audio file holds: speech librosa and ffmpeg can decode (and the
\* features extract_features gets from it), or bytes they cannot decode.
AudioContents == {"speech", "corrupt"}
FeaturesOf(content) == FeaturesAllRules

\* The one probability the model gives in this specification.
FilesProbability == 66000

\* temp_path = default_storage.save(f'temp/{name}', ...) (views.py:78,
\* 172-175): the name when it is free, else an alternative no file has had.
default_storage_save(w, stem, ext, content) ==
    LET name == FileName(stem, 0, ext)
        alternative == FileName(stem, renames + 1, ext)
        saved == IF name \in files THEN alternative ELSE name
    IN  /\ name \in files => renames < MaxRenames
        /\ files' = files \cup {saved}
        /\ renames' = IF name \in files THEN renames + 1 ELSE renames
        /\ io' = [io EXCEPT ![w] = [NoIO EXCEPT !.content = content,
                                                !.temp = saved]]

\* upload_audio: the uploaded file is saved under its own name once the form
\* is valid (views.py:74-81).
upload_audio_files(w) ==
    /\ upload_audio(w)
    /\ IF req'[w].stage = "Received"
       THEN \E content \in AudioContents :
              default_storage_save(w, "posted", req'[w].ext, content)
       ELSE UNCHANGED file_vars

\* record_and_detect: the recording is saved as recorded_<second>.webm
\* (views.py:168-175); the recordings here are those of one second.
record_and_detect_files(w) ==
    /\ record_and_detect(w)
    /\ IF req'[w].stage = "Received"
       THEN \E content \in AudioContents :
              default_storage_save(w, "recorded", "webm", content)
       ELSE UNCHANGED file_vars

\* wav_path = webm_path.replace('.webm', '.wav') (utils.py:75)
wav_path(webm_path) == [webm_path EXCEPT !.ext = "wav"]

\* ffmpeg -i webm_path ... wav_path (utils.py:77-84): it exits non-zero when
\* it cannot decode its input and, run without -y, when wav_path exists.
ffmpeg(w) == io[w].content # "corrupt" /\ wav_path(io[w].temp) \notin files

\* convert_webm_to_wav writing the file it returns (utils.py:72-91).
convert_webm_to_wav_files(w) ==
    /\ convert_webm_to_wav(w)
    /\ req'[w].stage = "Extracting" <=> ffmpeg(w)
    /\ IF ffmpeg(w)
       THEN /\ files' = files \cup {wav_path(io[w].temp)}
            /\ io' = [io EXCEPT ![w].wav = wav_path(io[w].temp)]
       ELSE UNCHANGED <<files, io>>
    /\ UNCHANGED renames

\* extract_features given the temporary file whatever its extension.
audio_path_original(w) == io[w].temp

\* audio_path of detect_parkinson (utils.py:155-159): what convert_webm_to_wav
\* returned for a .webm path, the path itself otherwise.
audio_path(w) == IF req[w].ext = "webm" THEN io[w].wav ELSE io[w].temp

\* extract_features loading audio_path (utils.py:40, 162).
extract_features_files(w) ==
    /\ extract_features(w)
    /\ req'[w].stage = "Classifying" <=> io[w].content # "corrupt"
    /\ req'[w].stage = "Classifying" =>
           req'[w].features = FeaturesOf(io[w].content)
    /\ io' = [io EXCEPT ![w].read = audio_path(w)]
    /\ UNCHANGED <<files, renames>>

\* classify with a model that gives FilesProbability and does not raise.
classify_files(w) ==
    /\ classify(w)
    /\ req'[w].inference # "raised"
    /\ req'[w].inference = "ok" => req'[w].probability = FilesProbability
    /\ UNCHANGED file_vars

\* The temporary file is removed after a detection (views.py:108-114,
\* 201-207), not in the except branch (views.py:130-148, 218-236); then the
\* response is returned.
respond_files(w) ==
    /\ respond(w)
    /\ files' = IF req[w].stage = "Completed" THEN files \ {io[w].temp}
                ELSE files
    /\ io' = [io EXCEPT ![w] = NoIO]
    /\ UNCHANGED renames

\* The modules are imported, with or without the audio model.
InitFiles ==
    /\ utils_imported = TRUE
    /\ model \in {"loaded", "None"}
    /\ scaler = model
    /\ views_imported = TRUE
    /\ values_model = "None"
    /\ values_scaler = "None"
    /\ req = [w \in Workers |-> NoRequest]
    /\ ml_failed = FALSE
    /\ hvec = <<>>
    /\ hres = NoCall
    /\ NoStorage

NextFiles ==
    \/ \E w \in Workers : upload_audio_files(w) /\ UNCHANGED <<store_vars, hcall, extras>>
    \/ \E w \in Workers : record_and_detect_files(w) /\ UNCHANGED <<store_vars, hcall, extras>>
    \/ \E w \in Workers : detect_parkinson(w) /\ UNCHANGED storage
    \/ \E w \in Workers : convert_webm_to_wav_files(w) /\ UNCHANGED <<store_vars, hcall, extras>>
    \/ \E w \in Workers : extract_features_files(w) /\ UNCHANGED <<store_vars, hcall, extras>>
    \/ \E w \in Workers : classify_files(w) /\ UNCHANGED <<store_vars, hcall, extras>>
    \/ \E w \in Workers : threshold_audio(w) /\ UNCHANGED storage
    \/ \E w \in Workers : respond_files(w) /\ UNCHANGED <<store_vars, hcall, extras>>

SpecFiles == InitFiles /\ [][NextFiles]_vars

----------------------------------------------------------------------------
(* The handlers and the tables they write.                                  *)

\* Rows of DetectionHistory the handlers may create.
MaxDetections == 2

\* limit=10 of the handlers' calls of suggest_top_hospitals (views.py:99)
SUGGEST_LIMIT == 10
\* limit=10 of the handlers' calls of get_random_hospitals (views.py:106)
DISPLAY_LIMIT == 10

\* The Hospital table, empty or seeded; a rating is in tenths.
HospitalTables == {<<>>, <<45, 48, 47>>}

\* What the model gives in this specification, <<probability, class>>: its
\* class is never the one the threshold of either mode gives the probability.
StoreInferences == {<<65000, 1>>, <<75100, 0>>}

hospital_ids(table) == 1..Len(table)

\* Hospital.objects.all().order_by('-rating') (utils.py:208): every order of
\* the ids in which the rating never rises; hospitals of one rating come in
\* any order.
RECURSIVE order_by_rating_desc(_, _)
order_by_rating_desc(table, ids) ==
    IF ids = {} THEN {<<>>}
    ELSE UNION {{<<h>> \o rest : rest \in order_by_rating_desc(table, ids \ {h})} :
                h \in {x \in ids : \A y \in ids : table[y] <= table[x]}}

\* [:limit], the first limit elements.
take(order, limit) == SubSeq(order, 1, Min(limit, Len(order)))

\* order_by('-rating') with no [:limit].
suggest_all_hospitals(table, limit) ==
    order_by_rating_desc(table, hospital_ids(table))

\* suggest_top_hospitals (utils.py:202-213): what it can return.
suggest_top_hospitals(table, limit) ==
    {take(order, limit) : order \in order_by_rating_desc(table, hospital_ids(table))}

\* save_suggested_hospitals (utils.py:216-227): the rows it creates.
save_suggested_hospitals(detection_id, top) ==
    {[detection |-> detection_id, hospital |-> top[rank], rank |-> rank] :
         rank \in 1..Len(top)}

\* get_random_hospitals (views.py:24-40): the hospitals it can return.
get_random_hospitals(table, limit) ==
    IF Len(table) <= limit THEN {hospital_ids(table)}
    ELSE {some \in SUBSET hospital_ids(table) : Cardinality(some) = limit}

\* Hospitals for every detection.
recommends_always(result) == TRUE

\* if detection_data['result'] == 'parkinson' (views.py:98, 106, 191, 199,
\* 548, 556)
recommends(result) == result = "parkinson"

\* test_type of the row each handler creates (views.py:93, 186, 536)
test_type(handler) ==
    IF handler = "upload_audio" THEN "upload"
    ELSE IF handler = "record_and_detect" THEN "record" ELSE "values"

\* What can go wrong in send_detection_report_email: rendering and sending
\* the mail (sent), creating the 'sent' EmailReport (recorded), creating the
\* 'failed' EmailReport in the except branch (failure_recorded).
Deliveries == [sent : BOOLEAN, recorded : BOOLEAN, failure_recorded : BOOLEAN]
Delivered == [sent |-> TRUE, recorded |-> TRUE, failure_recorded |-> TRUE]

\* EmailReport.objects.create(detection=...) raises when the detection has a
\* report: detection is a OneToOneField (models.py:98).
can_report(reports, detection_id) ==
    \A row \in reports : row.detection # detection_id

\* send_detection_report_email that returns True after the except branch too.
send_detection_report_email_true(reports, detection_id, delivery) ==
    LET created == delivery.sent /\ delivery.recorded
                   /\ can_report(reports, detection_id)
        failed == ~created /\ delivery.failure_recorded
                  /\ can_report(reports, detection_id)
    IN  [returned |-> TRUE,
         delivered |-> delivery.sent,
         reports |-> IF created
                     THEN {[detection |-> detection_id, status |-> "sent"]}
                     ELSE IF failed
                     THEN {[detection |-> detection_id, status |-> "failed"]}
                     ELSE {}]

\* send_detection_report_email (utils.py:230-280): True and a 'sent' report
\* when the mail was sent and the report created; else the except branch, a
\* 'failed' report if it can be created, and False.
send_detection_report_email(reports, detection_id, delivery) ==
    LET created == delivery.sent /\ delivery.recorded
                   /\ can_report(reports, detection_id)
        failed == ~created /\ delivery.failure_recorded
                  /\ can_report(reports, detection_id)
    IN  [returned |-> created,
         delivered |-> delivery.sent,
         reports |-> IF created
                     THEN {[detection |-> detection_id, status |-> "sent"]}
                     ELSE IF failed
                     THEN {[detection |-> detection_id, status |-> "failed"]}
                     ELSE {}]

\* A row that stores the confidence as a whole percentage.
detection_row_whole_percent(w) ==
    [test_type |-> test_type(req[w].handler),
     detection_result |-> req[w].result,
     confidence |-> req[w].probability \div 1000]

\* DetectionHistory.objects.create(detection_result=result,
\* confidence=confidence, test_type=...) (views.py:87-94, 180-187, 534-546)
detection_row(w) ==
    [test_type |-> test_type(req[w].handler),
     detection_result |-> req[w].result,
     confidence |-> req[w].confidence]

\* The handlers after the detection: the DetectionHistory row, the suggested
\* hospitals, the email report and the JSON response (views.py:87-123,
\* 180-216, 529-565); the value send_detection_report_email returns is
\* dropped and the response is the same whatever it is.
record_detection(w, delivery) ==
    /\ req[w].stage = "Completed"
    /\ ~resp[w].sent
    /\ Len(detections) < MaxDetections
    /\ LET id == Len(detections) + 1
           row == detection_row(w)
       IN  /\ detections' = Append(detections, row)
           /\ IF recommends(req[w].result)
              THEN \E top \in suggest_top_hospitals(hospitals, SUGGEST_LIMIT) :
                     suggested' = suggested \cup save_suggested_hospitals(id, top)
              ELSE UNCHANGED suggested
           /\ LET mail == send_detection_report_email(emails, id, delivery)
              IN  /\ emails' = emails \cup mail.reports
                  /\ \E shown \in (IF recommends(req[w].result)
                                   THEN get_random_hospitals(hospitals, DISPLAY_LIMIT)
                                   ELSE {{}}) :
                       resp' = [resp EXCEPT ![w] =
                                  [NoResponse EXCEPT
                                     !.sent = TRUE, !.detection_id = id,
                                     !.hospitals = shown, !.status = 200,
                                     !.email_returned = mail.returned,
                                     !.email_delivered = mail.delivered]]
    /\ UNCHANGED <<Globals, req, ml_failed, hvec, hres, hospitals, file_vars,
                   hcall, extras>>

\* The response is returned: after record_detection for a detection, at once
\* for an error.
respond_store(w) ==
    /\ req[w].stage = "Completed" => resp[w].sent
    /\ respond(w)
    /\ resp' = [resp EXCEPT ![w] = NoResponse]
    /\ UNCHANGED <<hospitals, detections, suggested, emails, file_vars, hcall,
                   extras>>

\* The inputs of this specification: uploads of .wav files, one feature
\* vector per mode, the inferences of StoreInferences, an audio model that
\* does not raise; and, in NextStore, email that is delivered.
InStoreScope(w) ==
    /\ req'[w].handler = "upload_audio" => req'[w].ext \in {"none", "wav"}
    /\ req'[w].features \in {<<>>, FeaturesAllRules, ValuesOf("one_missing")}
    /\ req'[w].inference = "ok" =>
           <<req'[w].probability, req'[w].prediction>> \in StoreInferences
    /\ ~ml_failed'
    /\ UNCHANGED <<store_vars, file_vars, hcall, extras>>

\* The modules are imported: the audio model and scaler are loaded, the values
\* model is loaded with or without its scaler.
InitStore ==
    /\ utils_imported = TRUE
    /\ model = "loaded"
    /\ scaler = "loaded"
    /\ views_imported = TRUE
    /\ values_model = "loaded"
    /\ values_scaler \in {"loaded", "None"}
    /\ req = [w \in Workers |-> NoRequest]
    /\ ml_failed = FALSE
    /\ hvec = <<>>
    /\ hres = NoCall
    /\ files = {}
    /\ renames = 0
    /\ io = [w \in Workers |-> NoIO]
    /\ hospitals \in HospitalTables
    /\ detections = <<>>
    /\ suggested = {}
    /\ emails = {}
    /\ resp = [w \in Workers |-> NoResponse]
    /\ hcall = NoHospitalCall
    /\ NoExtras

NextStore ==
    \/ \E w \in Workers : upload_audio(w) /\ InStoreScope(w)
    \/ \E w \in Workers : record_and_detect(w) /\ InStoreScope(w)
    \/ \E w \in Workers : detect_parkinson(w) /\ InStoreScope(w)
    \/ \E w \in Workers : convert_webm_to_wav(w) /\ InStoreScope(w)
    \/ \E w \in Workers : extract_features(w) /\ InStoreScope(w)
    \/ \E w \in Workers : classify(w) /\ InStoreScope(w)
    \/ \E w \in Workers : threshold_audio(w) /\ InStoreScope(w)
    \/ \E w \in Workers : values_predict(w) /\ InStoreScope(w)
    \/ \E w \in Workers : values_collect(w) /\ InStoreScope(w)
    \/ \E w \in Workers : values_classify(w) /\ InStoreScope(w)
    \/ \E w \in Workers : threshold_values(w) /\ InStoreScope(w)
    \/ \E w \in Workers : record_detection(w, Delivered)
    \/ \E w \in Workers : respond_store(w)

SpecStore == InitStore /\ [][NextStore]_vars

----------------------------------------------------------------------------
(* values_predict: the posted form, the loaded scaler and model, the tables. *)

\* len(VALUES_FEATURE_NAMES) (views.py:444-451)
N_VALUES == 22

\* Forms posted to values_predict: given are the positions in
\* VALUES_FEATURE_NAMES that have a value float() accepts (the value of
\* position i is i), invalid those with a value it rejects; the others are
\* not in the form.
PostedForms ==
    {[given |-> 1..N_VALUES, invalid |-> {}],
     [given |-> 1..(N_VALUES - 1), invalid |-> {}],
     [given |-> {}, invalid |-> {}],
     [given |-> 2..N_VALUES, invalid |-> {1}],
     [given |-> 1..(N_VALUES - 1), invalid |-> {N_VALUES}],
     [given |-> (1..N_VALUES) \ {3, 9}, invalid |-> {3, 9}]}

\* The loop that names the last feature float() rejects.
last_invalid(invalid) == CHOOSE i \in invalid : \A j \in invalid : j <= i

\* The feature of the first float() that raises ValueError in the loop over
\* VALUES_FEATURE_NAMES (views.py:502-510).
first_invalid(invalid) == CHOOSE i \in invalid : \A j \in invalid : i <= j

\* values after the loop: float(request.POST.get(feature, 0)) for each name
\* in order (views.py:501-505).
values_vector(post) ==
    Nums([i \in 1..N_VALUES |-> IF i \in post.given THEN i ELSE 0])

ValuesVectors == {values_vector(post) : post \in {f \in PostedForms : f.invalid = {}}}

\* The probabilities a fitted model gives in this specification.
ArtifactProbabilities == {75000, 75100}

\* values_scaler.fit_transform(values_array): the one row scales to zeros.
predict_proba_refit(vector) == values_artifact[Nums(Zeros(N_VALUES))]

\* values_model.predict_proba(values_scaler.transform(values_array))[0][1]
\* (views.py:513-519): a function of the vector and of the fitted objects.
predict_proba(vector) == values_artifact[vector]

\* values_predict is entered with a form.
values_predict_posted(w) ==
    /\ values_predict(w)
    /\ \E form \in PostedForms : posted' = [posted EXCEPT ![w] = form]
    /\ UNCHANGED <<file_vars, store_vars, hcall, values_artifact, measured,
                   seed, page>>

\* The loop over the posted values: the 400 response of the first value that
\* float() rejects, or the vector (views.py:499-513).
values_collect_posted(w) ==
    /\ values_collect(w)
    /\ req'[w].stage = "Failed" <=> posted[w].invalid # {}
    /\ IF posted[w].invalid # {}
       THEN resp' = [resp EXCEPT ![w] =
                       [NoResponse EXCEPT
                          !.status = 400, !.error = "Invalid value for",
                          !.feature = first_invalid(posted[w].invalid)]]
       ELSE /\ req'[w].features = values_vector(posted[w])
            /\ UNCHANGED resp
    /\ UNCHANGED <<file_vars, hospitals, detections, suggested, emails, hcall,
                   extras>>

\* Scaling and inference with the loaded objects, or the 500 response of the
\* except branch (views.py:512-519, 567-573).
values_classify_artifact(w) ==
    /\ values_classify(w)
    /\ IF req'[w].inference = "ok"
       THEN /\ req'[w].probability = predict_proba(req[w].features)
            /\ UNCHANGED resp
       ELSE resp' = [resp EXCEPT ![w] =
                       [NoResponse EXCEPT
                          !.status = 500,
                          !.error = "An error occurred during prediction"]]
    /\ UNCHANGED <<file_vars, hospitals, detections, suggested, emails, hcall,
                   extras>>

\* The response of values_predict is returned.
respond_values(w) ==
    /\ req[w].stage = "Completed" => resp[w].sent
    /\ respond(w)
    /\ resp' = [resp EXCEPT ![w] = NoResponse]
    /\ posted' = [posted EXCEPT ![w] = NoPost]
    /\ UNCHANGED <<file_vars, hospitals, detections, suggested, emails, hcall,
                   values_artifact, measured, seed, page>>

\* The modules are imported, the values model and scaler are loaded and fitted
\* in some way, the hospitals are seeded.
InitValues ==
    /\ utils_imported = TRUE
    /\ model = "loaded"
    /\ scaler = "loaded"
    /\ views_imported = TRUE
    /\ values_model = "loaded"
    /\ values_scaler = "loaded"
    /\ req = [w \in Workers |-> NoRequest]
    /\ ml_failed = FALSE
    /\ hvec = <<>>
    /\ hres = NoCall
    /\ files = {}
    /\ renames = 0
    /\ io = [w \in Workers |-> NoIO]
    /\ hospitals = <<45, 48, 47>>
    /\ detections = <<>>
    /\ suggested = {}
    /\ emails = {}
    /\ resp = [w \in Workers |-> NoResponse]
    /\ hcall = NoHospitalCall
    /\ values_artifact \in [ValuesVectors -> ArtifactProbabilities]
    /\ posted = [w \in Workers |-> NoPost]
    /\ measured = NoMeasurement
    /\ seed = [c \in Seeders |-> NoSeeding]
    /\ page = NoPage

NextValues ==
    \/ \E w \in Workers : values_predict_posted(w)
    \/ \E w \in Workers : values_collect_posted(w)
    \/ \E w \in Workers : values_classify_artifact(w)
    \/ \E w \in Workers : threshold_values(w) /\ UNCHANGED storage
    \/ \E w \in Workers : record_detection(w, Delivered)
    \/ \E w \in Workers : respond_values(w)

SpecValues == InitValues /\ [][NextValues]_vars

----------------------------------------------------------------------------
(* The except branch of upload_audio and record_and_detect: the message of *)
(* the response is chosen from the text of the exception.                  *)

\* The words the except branch looks for in str(e).lower()
\* (views.py:136-141).  The text of an exception is modelled by the set of
\* these words it contains.
Keywords == {"model", "scaler", "audio", "format", "ffmpeg"}

INITIALIZING == "Audio processing system is initializing. Please try again in a moment."
UNSUPPORTED == "The audio file format is not supported. Please use MP3 or WAV."
CONVERSION == "Audio conversion service is not available. Please try again."
GENERIC == "Error processing audio. Please try again with a different file."

\* The chain of the except branch with the test for 'ffmpeg' first.
user_msg_ffmpeg_first(text) ==
    IF "ffmpeg" \in text THEN CONVERSION
    ELSE IF "model" \in text \/ "scaler" \in text THEN INITIALIZING
    ELSE IF "audio" \in text \/ "format" \in text THEN UNSUPPORTED
    ELSE GENERIC

\* user_msg of the except branch (views.py:135-143, 223-231).
user_msg(text) ==
    IF "model" \in text \/ "scaler" \in text THEN INITIALIZING
    ELSE IF "audio" \in text \/ "format" \in text THEN UNSUPPORTED
    ELSE IF "ffmpeg" \in text THEN CONVERSION
    ELSE GENERIC

\* The words in the path of the temporary file: upload_audio keeps the name
\* the client gave (views.py:75-78), record_and_detect names the file
\* recorded_<timestamp>.webm (views.py:165-173).
PathWords(handler) ==
    IF handler = "upload_audio" THEN SUBSET (Keywords \ {"ffmpeg"}) ELSE {{}}

\* The texts of the exceptions of convert_webm_to_wav (utils.py:75-91): the
\* CalledProcessError of subprocess.run(check=True) prints the command, with
\* 'ffmpeg' and the path; the FileNotFoundError of a missing ffmpeg names
\* 'ffmpeg' alone.
ConversionTexts(handler) == {words \cup {"ffmpeg"} : words \in PathWords(handler)}

\* The texts of the exceptions of extract_features (utils.py:43, 66-69):
\* librosa.load fails with a text that has the path or not, and the word
\* 'format' (Format not recognised) or not.
ExtractionTexts(handler) ==
    {words \cup library : words \in PathWords(handler) \cup {{}},
                          library \in {{}, {"format"}}}

\* The response of the except branch for an exception with this text
\* (views.py:130-148, 218-236); debug_error is str(e).
ErrorResponse(text) ==
    [NoResponse EXCEPT !.status = 500, !.error = user_msg(text),
                       !.debug_error = text]

\* The rest of the state when only resp changes.
but_resp == <<file_vars, hospitals, detections, suggested, emails, hcall, extras>>

\* upload_audio is entered: a form that is not valid is answered 400
\* (views.py:124-128).
upload_audio_errors(w) ==
    /\ upload_audio(w)
    /\ IF req'[w].stage = "Failed"
       THEN resp' = [resp EXCEPT ![w] =
                       [NoResponse EXCEPT !.status = 400,
                                          !.error = "Invalid form submission"]]
       ELSE UNCHANGED resp
    /\ UNCHANGED but_resp

\* record_and_detect is entered: a request without audio_blob is answered 400
\* (views.py:156-160).
record_and_detect_errors(w) ==
    /\ record_and_detect(w)
    /\ IF req'[w].stage = "Failed"
       THEN resp' = [resp EXCEPT ![w] =
                       [NoResponse EXCEPT !.status = 400,
                                          !.error = "No audio data provided"]]
       ELSE UNCHANGED resp
    /\ UNCHANGED but_resp

\* convert_webm_to_wav returns, or raises into the except branch of the handler.
convert_webm_to_wav_errors(w) ==
    /\ convert_webm_to_wav(w)
    /\ IF req'[w].stage = "Failed"
       THEN \E text \in ConversionTexts(req[w].handler) :
              resp' = [resp EXCEPT ![w] = ErrorResponse(text)]
       ELSE UNCHANGED resp
    /\ UNCHANGED but_resp

\* extract_features returns, or raises into the except branch of the handler.
extract_features_errors(w) ==
    /\ extract_features(w)
    /\ req'[w].features \in {<<>>, FeaturesAllRules}
    /\ IF req'[w].stage = "Failed"
       THEN \E text \in ExtractionTexts(req[w].handler) :
              resp' = [resp EXCEPT ![w] = ErrorResponse(text)]
       ELSE UNCHANGED resp
    /\ UNCHANGED but_resp

\* The inference of this specification: one probability, a model that does
\* not raise.
classify_errors(w) ==
    /\ classify(w)
    /\ req'[w].inference = "ok"
    /\ <<req'[w].probability, req'[w].prediction>> = <<65000, 1>>
    /\ UNCHANGED storage

\* The response is returned.
respond_errors(w) ==
    /\ req[w].stage = "Completed" => resp[w].sent
    /\ respond(w)
    /\ resp' = [resp EXCEPT ![w] = NoResponse]
    /\ UNCHANGED but_resp

\* The modules are imported with the audio model and scaler loaded; no
\* hospital is seeded.
InitErrors ==
    /\ utils_imported = TRUE
    /\ model = "loaded"
    /\ scaler = "loaded"
    /\ views_imported = TRUE
    /\ values_model = "loaded"
    /\ values_scaler = "loaded"
    /\ req = [w \in Workers |-> NoRequest]
    /\ ml_failed = FALSE
    /\ hvec = <<>>
    /\ hres = NoCall
    /\ NoStorage

NextErrors ==
    \/ \E w \in Workers : upload_audio_errors(w)
    \/ \E w \in Workers : record_and_detect_errors(w)
    \/ \E w \in Workers : detect_parkinson(w) /\ UNCHANGED storage
    \/ \E w \in Workers : convert_webm_to_wav_errors(w)
    \/ \E w \in Workers : extract_features_errors(w)
    \/ \E w \in Workers : classify_errors(w)
    \/ \E w \in Workers : threshold_audio(w) /\ UNCHANGED storage
    \/ \E w \in Workers : record_detection(w, Delivered)
    \/ \E w \in Workers : respond_errors(w)

SpecErrors == InitErrors /\ [][NextErrors]_vars

----------------------------------------------------------------------------
(* extract_features followed by fallback_detection on the vector it built.  *)

\* What librosa measures on a file: the 13 MFCC means, and the means of the
\* zero crossing rate, RMS energy, spectral centroid, bandwidth and rolloff
\* (utils.py:46-63); NaN is the mean of a feature of an empty signal.
Measurements ==
    [taken : {TRUE},
     mfcc : {MfccFlat, MfccStdBelow50, MfccStdAbove50, MfccStd60, MfccWithNaN},
     zcr : {Num(1), NaN},
     rms : {Num(10), Num(19), Num(20), Num(21), NaN},
     centroid : {Num(1000), Num(1999), Num(2000), Num(3000), Num(5000),
                 Num(5001), NaN},
     bandwidth : {Num(2), Num(10)},
     rolloff : {Num(3), Num(1000)}]

\* A list built with the RMS energy appended before the zero crossing rate.
features_array_rms_first(m) ==
    m.mfcc \o <<m.rms, m.zcr, m.centroid, m.bandwidth, m.rolloff>>

\* features of extract_features: extend by the 13 MFCC means, then append the
\* zero crossing rate, RMS energy, spectral centroid, spectral bandwidth and
\* spectral rolloff (utils.py:44-65).
features_array(m) ==
    m.mfcc \o <<m.zcr, m.rms, m.centroid, m.bandwidth, m.rolloff>>

\* extract_features returns the array of what it measured.
call_extract_features ==
    /\ ~measured.taken
    /\ \E m \in Measurements :
         /\ measured' = m
         /\ hvec' = features_array(m)
    /\ UNCHANGED <<Globals, req, ml_failed, hres, file_vars, store_vars, hcall,
                   values_artifact, posted, seed, page>>

\* detect_parkinson without a model hands the array to fallback_detection
\* (utils.py:162, 175-179).
fallback_on_extracted ==
    /\ measured.taken
    /\ call_fallback_detection
    /\ UNCHANGED storage

InitExtract ==
    /\ utils_imported = TRUE
    /\ model = "None"
    /\ scaler = "None"
    /\ views_imported = FALSE
    /\ values_model = "None"
    /\ values_scaler = "None"
    /\ req = [w \in Workers |-> NoRequest]
    /\ ml_failed = FALSE
    /\ hvec = <<>>
    /\ hres = NoCall
    /\ NoStorage

NextExtract ==
    \/ call_extract_features
    \/ fallback_on_extracted

SpecExtract == InitExtract /\ [][NextExtract]_vars

----------------------------------------------------------------------------
(* upload_audio with every outcome of send_detection_report_email.          *)

\* The inputs of this specification: uploads of .wav files, one feature
\* vector, the inferences of StoreInferences, a model that does not raise.
InEmailScope(w) ==
    /\ req'[w].ext \in {"none", "wav"}
    /\ req'[w].features \in {<<>>, FeaturesAllRules}
    /\ req'[w].inference = "ok" =>
           <<req'[w].probability, req'[w].prediction>> \in StoreInferences
    /\ ~ml_failed'
    /\ UNCHANGED storage

\* The row is created, the hospitals are suggested, the report is mailed with
\* any outcome, and the response is built (views.py:87-123).
record_and_mail(w) == \E delivery \in Deliveries : record_detection(w, delivery)

\* The modules are imported with the models loaded; the hospitals are seeded.
InitEmail ==
    /\ utils_imported = TRUE
    /\ model = "loaded"
    /\ scaler = "loaded"
    /\ views_imported = TRUE
    /\ values_model = "loaded"
    /\ values_scaler = "loaded"
    /\ req = [w \in Workers |-> NoRequest]
    /\ ml_failed = FALSE
    /\ hvec = <<>>
    /\ hres = NoCall
    /\ files = {}
    /\ renames = 0
    /\ io = [w \in Workers |-> NoIO]
    /\ hospitals = <<45, 48, 47>>
    /\ detections = <<>>
    /\ suggested = {}
    /\ emails = {}
    /\ resp = [w \in Workers |-> NoResponse]
    /\ hcall = NoHospitalCall
    /\ NoExtras

NextEmail ==
    \/ \E w \in Workers : upload_audio(w) /\ InEmailScope(w)
    \/ \E w \in Workers : detect_parkinson(w) /\ InEmailScope(w)
    \/ \E w \in Workers : extract_features(w) /\ InEmailScope(w)
    \/ \E w \in Workers : classify(w) /\ InEmailScope(w)
    \/ \E w \in Workers : threshold_audio(w) /\ InEmailScope(w)
    \/ \E w \in Workers : record_and_mail(w)
    \/ \E w \in Workers : respond_store(w)

SpecEmail == InitEmail /\ [][NextEmail]_vars

----------------------------------------------------------------------------
(* Seeding of the Hospital table: the view initialize_hospitals and the    *)
(* management command of the same name, called at any time by any caller.  *)

\* Number of sample hospitals a seeding creates in this specification.
MaxSample == 3

\* The ratings of get_sample_hospitals(), in order (utils.py:284-408).
SampleRatings == <<48, 47, 46, 45, 46, 47, 45, 44, 49, 48>>

\* get_sample_hospitals(), cut to the first MaxSample hospitals.
get_sample_hospitals == SubSeq(SampleRatings, 1, Min(MaxSample, Len(SampleRatings)))

\* The rest of the state when only seed and hospitals change.
but_seed == <<Globals, req, ml_failed, hvec, hres, file_vars, detections,
              suggested, emails, resp, hcall, values_artifact, posted, measured,
              page>>

\* The view is requested: 403 for a user who is not staff (views.py:308-311).
initialize_hospitals_view(c) ==
    /\ seed[c].pc = "idle"
    /\ \E staff \in BOOLEAN :
         seed' = [seed EXCEPT ![c] =
                    IF staff
                    THEN [NoSeeding EXCEPT !.pc = "checking", !.staff = TRUE,
                                           !.via = "view"]
                    ELSE [NoSeeding EXCEPT !.pc = "done", !.via = "view",
                                           !.status = 403]]
    /\ UNCHANGED <<hospitals, but_seed>>

\* The management command is run (initialize_hospitals.py:11).
initialize_hospitals_command(c) ==
    /\ seed[c].pc = "idle"
    /\ seed' = [seed EXCEPT ![c] =
                  [NoSeeding EXCEPT !.pc = "checking", !.via = "command"]]
    /\ UNCHANGED <<hospitals, but_seed>>

\* if Hospital.objects.exists(): return (views.py:314-315,
\* initialize_hospitals.py:12-14)
hospitals_exist(c) ==
    /\ seed[c].pc = "checking"
    /\ seed' = [seed EXCEPT ![c] =
                  IF hospitals # <<>>
                  THEN [@ EXCEPT !.pc = "done", !.status = 200]
                  ELSE [@ EXCEPT !.pc = "creating", !.next = 1]]
    /\ UNCHANGED <<hospitals, but_seed>>

\* One turn of for data in hospitals_data: Hospital.objects.create(**data)
\* (views.py:317-320, initialize_hospitals.py:16-19): the row is created, or
\* the create raises and the call ends.
create_hospital(c) ==
    /\ seed[c].pc = "creating"
    /\ \/ /\ hospitals' = Append(hospitals, get_sample_hospitals[seed[c].next])
          /\ seed' = [seed EXCEPT ![c] =
                        IF seed[c].next = Len(get_sample_hospitals)
                        THEN [@ EXCEPT !.pc = "done", !.status = 200]
                        ELSE [@ EXCEPT !.next = @ + 1]]
       \/ /\ seed' = [seed EXCEPT ![c] = [@ EXCEPT !.pc = "done", !.status = 500]]
          /\ UNCHANGED hospitals
    /\ UNCHANGED but_seed

\* The call returns.
seeding_returns(c) ==
    /\ seed[c].pc = "done"
    /\ seed' = [seed EXCEPT ![c] = NoSeeding]
    /\ UNCHANGED <<hospitals, but_seed>>

InitSeed ==
    /\ utils_imported = TRUE
    /\ model = "loaded"
    /\ scaler = "loaded"
    /\ views_imported = TRUE
    /\ values_model = "loaded"
    /\ values_scaler = "loaded"
    /\ req = [w \in Workers |-> NoRequest]
    /\ ml_failed = FALSE
    /\ hvec = <<>>
    /\ hres = NoCall
    /\ NoStorage

NextSeed ==
    \/ \E c \in Seeders : initialize_hospitals_view(c)
    \/ \E c \in Seeders : initialize_hospitals_command(c)
    \/ \E c \in Seeders : hospitals_exist(c)
    \/ \E c \in Seeders : create_hospital(c)
    \/ \E c \in Seeders : seeding_returns(c)

SpecSeed == InitSeed /\ [][NextSeed]_vars

----------------------------------------------------------------------------
(* The pages that show detections: history, detection_detail and           *)
(* download_report, requested by any user for any detection id.            *)

\* The users who have an account.
Users == {"alice", "bob"}

\* Who requests a page: a user who is logged in, or nobody.
Requesters == Users \cup {"anonymous"}

\* The rest of the state when only page changes.
but_page == <<Globals, req, ml_failed, hvec, hres, file_vars, store_vars, hcall,
              values_artifact, posted, measured, seed>>

\* What a page returns: the detections, SuggestedHospital rows and
\* EmailReport rows in its context.
Page(view, user, detection_id, status, ids, rows, reports) ==
    [done |-> TRUE, view |-> view, user |-> user, detection_id |-> detection_id,
     status |-> status, detections |-> ids, hospitals |-> rows,
     email_report |-> reports]

\* @login_required: a request without a user is redirected to the login page.
Redirected(view, detection_id) ==
    Page(view, "anonymous", detection_id, 302, {}, {}, {})

\* A lookup by id alone.
get_object_by_id(table, detection_id, user) ==
    {id \in 1..Len(table) : id = detection_id}

\* get_object_or_404(DetectionHistory, id=detection_id, user=request.user)
\* (views.py:260, 337): the ids of the rows that match; Http404 when none.
get_object_or_404(table, detection_id, user) ==
    {id \in 1..Len(table) : id = detection_id /\ table[id].user = user}

\* A handler stores a detection of a user with its suggestions and its
\* report (views.py:87-103): DetectionHistory.objects.create(user=request.user, ...).
detection_created(u) ==
    /\ Len(detections) < MaxDetections
    /\ \E result \in {"healthy", "parkinson"} :
         LET id == Len(detections) + 1
         IN  /\ detections' = Append(detections,
                                     [user |-> u, test_type |-> "upload",
                                      detection_result |-> result,
                                      confidence |-> 7000])
             /\ IF recommends(result)
                THEN \E top \in suggest_top_hospitals(hospitals, SUGGEST_LIMIT) :
                       suggested' = suggested \cup save_suggested_hospitals(id, top)
                ELSE UNCHANGED suggested
             /\ emails' = emails
                    \cup send_detection_report_email(emails, id, Delivered).reports
    /\ UNCHANGED <<Globals, req, ml_failed, hvec, hres, file_vars, hospitals,
                   resp, hcall, extras>>

\* history: DetectionHistory.objects.filter(user=request.user) (views.py:239-254)
history(u) ==
    /\ page' = IF u = "anonymous" THEN Redirected("history", 0)
               ELSE Page("history", u, 0, 200,
                         {id \in 1..Len(detections) : detections[id].user = u},
                         {}, {})
    /\ UNCHANGED but_page

\* detection_detail: the detection, its suggested hospitals and its email
\* report (views.py:257-268)
detection_detail(u, detection_id) ==
    /\ page' =
         IF u = "anonymous" THEN Redirected("detection_detail", detection_id)
         ELSE LET found == get_object_or_404(detections, detection_id, u)
              IN  IF found = {}
                  THEN Page("detection_detail", u, detection_id, 404, {}, {}, {})
                  ELSE Page("detection_detail", u, detection_id, 200, found,
                            {row \in suggested : row.detection \in found},
                            {row \in emails : row.detection \in found})
    /\ UNCHANGED but_page

\* download_report: the detection and its suggested hospitals as a PDF
\* (views.py:334-432)
download_report(u, detection_id) ==
    /\ page' =
         IF u = "anonymous" THEN Redirected("download_report", detection_id)
         ELSE LET found == get_object_or_404(detections, detection_id, u)
              IN  IF found = {}
                  THEN Page("download_report", u, detection_id, 404, {}, {}, {})
                  ELSE Page("download_report", u, detection_id, 200, found,
                            {row \in suggested : row.detection \in found}, {})
    /\ UNCHANGED but_page

\* The ids a request can name: those of the table and one past them.
DetectionIds == 1..(MaxDetections + 1)

InitOwner ==
    /\ utils_imported = TRUE
    /\ model = "loaded"
    /\ scaler = "loaded"
    /\ views_imported = TRUE
    /\ values_model = "loaded"
    /\ values_scaler = "loaded"
    /\ req = [w \in Workers |-> NoRequest]
    /\ ml_failed = FALSE
    /\ hvec = <<>>
    /\ hres = NoCall
    /\ files = {}
    /\ renames = 0
    /\ io = [w \in Workers |-> NoIO]
    /\ hospitals = <<45, 48, 47>>
    /\ detections = <<>>
    /\ suggested = {}
    /\ emails = {}
    /\ resp = [w \in Workers |-> NoResponse]
    /\ hcall = NoHospitalCall
    /\ NoExtras

NextOwner ==
    \/ \E u \in Users : detection_created(u)
    \/ \E u \in Requesters : history(u)
    \/ \E u \in Requesters, detection_id \in DetectionIds :
         detection_detail(u, detection_id)
    \/ \E u \in Requesters, detection_id \in DetectionIds :
         download_report(u, detection_id)

SpecOwner == InitOwner /\ [][NextOwner]_vars

----------------------------------------------------------------------------
(* Direct calls of suggest_top_hospitals and save_suggested_hospitals.      *)

\* Rows of the Hospital table.
MaxHospitals == 4

\* Ratings in tenths: 4.5 is the default of the field (models.py:36).
Ratings == {45, 47, 48}

\* The limits the calls are made with; the handlers use 10.
HospitalLimits == {1, 2, SUGGEST_LIMIT}

RECURSIVE Tables(_)
Tables(n) ==
    IF n = 0 THEN {<<>>}
    ELSE Tables(n - 1) \cup
         {Append(table, rating) : table \in {t \in Tables(n - 1) : Len(t) = n - 1},
                                  rating \in Ratings}

\* hospitals = suggest_top_hospitals('parkinson', limit);
\* save_suggested_hospitals(detection, hospitals) for the detection of id 1.
call_suggest_top_hospitals ==
    /\ ~hcall.done
    /\ \E limit \in HospitalLimits :
         \E top \in suggest_top_hospitals(hospitals, limit) :
            /\ hcall' = [done |-> TRUE, limit |-> limit, top |-> top,
                         detection_id |-> 1]
            /\ suggested' = suggested \cup save_suggested_hospitals(1, top)
    /\ UNCHANGED <<Globals, req, ml_failed, hvec, hres, file_vars, hospitals,
                   detections, emails, resp, extras>>

InitHospitals ==
    /\ utils_imported = TRUE
    /\ model = "None"
    /\ scaler = "None"
    /\ views_imported = FALSE
    /\ values_model = "None"
    /\ values_scaler = "None"
    /\ req = [w \in Workers |-> NoRequest]
    /\ ml_failed = FALSE
    /\ hvec = <<>>
    /\ hres = NoCall
    /\ files = {}
    /\ renames = 0
    /\ io = [w \in Workers |-> NoIO]
    /\ hospitals \in Tables(MaxHospitals)
    /\ detections = <<[test_type |-> "upload", detection_result |-> "parkinson",
                       confidence |-> 7000]>>
    /\ suggested = {}
    /\ emails = {}
    /\ resp = [w \in Workers |-> NoResponse]
    /\ hcall = NoHospitalCall
    /\ NoExtras

NextHospitals == call_suggest_top_hospitals

SpecHospitals == InitHospitals /\ [][NextHospitals]_vars

----------------------------------------------------------------------------
(* Properties.                                                              *)

Labels == {"healthy", "parkinson"}
AudioDone(w) == req[w].handler \in AudioHandlers /\ req[w].stage = "Completed"
ValuesDone(w) == req[w].handler = "values_predict" /\ req[w].stage = "Completed"
Classified(w) == req[w].stage \in {"Thresholding", "Completed"}

\* C1: in audio mode a completed detection is labelled 'parkinson' exactly
\* when its probability is strictly greater than 0.65, whether the model or
\* the heuristic produced it; 0.65 is 'healthy' and 0.66 is 'parkinson'.
C1_AudioLabelIffAbove065 ==
    \A w \in Workers :
        AudioDone(w) =>
            /\ req[w].result \in Labels
            /\ req[w].result = "parkinson" <=> req[w].probability > 65000
            /\ req[w].probability = 65000 => req[w].result = "healthy"
            /\ req[w].probability = 66000 => req[w].result = "parkinson"

C1_Witness ==
    \E w, x \in Workers :
        /\ AudioDone(w) /\ req[w].probability = 65000 /\ req[w].result = "healthy"
        /\ AudioDone(x) /\ req[x].probability = 66000 /\ req[x].result = "parkinson"

\* C2: in values mode a completed detection is labelled 'parkinson' exactly
\* when its probability is strictly greater than 0.75; 0.75 is 'healthy' and
\* 0.751 is 'parkinson'.
C2_ValuesLabelIffAbove075 ==
    \A w \in Workers :
        ValuesDone(w) =>
            /\ req[w].result \in Labels
            /\ req[w].result = "parkinson" <=> req[w].probability > 75000
            /\ req[w].probability = 75000 => req[w].result = "healthy"
            /\ req[w].probability = 75100 => req[w].result = "parkinson"

C2_Witness ==
    \E w, x \in Workers :
        /\ ValuesDone(w) /\ req[w].probability = 75000 /\ req[w].result = "healthy"
        /\ ValuesDone(x) /\ req[x].probability = 75100 /\ req[x].result = "parkinson"

\* C3: in both modes a completed detection's confidence is round(probability *
\* 100, 2) of the probability its label was decided on, the probability lies
\* in [0, 1] and the confidence in [0, 100].
C3_ConfidenceIsRoundedProbability ==
    \A w \in Workers :
        (AudioDone(w) \/ ValuesDone(w)) =>
            /\ req[w].confidence = round2(req[w].probability)
            /\ req[w].probability \in 0..100000
            /\ req[w].confidence \in 0..10000
            /\ req[w].result = "parkinson" <=>
                   req[w].probability >
                       (IF req[w].handler = "values_predict" THEN 75000 ELSE 65000)

C3_Witness ==
    \E w, x \in Workers :
        /\ AudioDone(w) /\ req[w].inference = "raised"
        /\ req[w].probability = 70000 /\ req[w].confidence = 7000
        /\ ValuesDone(x) /\ req[x].probability = 12346 /\ req[x].confidence = 1235

AllNumbers(v) == \A i \in 1..Len(v) : IsNum(v[i])

\* The score the three rules give an 18-element vector of numbers.
RuleSum(v) ==
    (IF v[15].v < 20 THEN 30000 ELSE 0)
    + (IF v[16].v < 2000 \/ v[16].v > 5000 THEN 20000 ELSE 0)
    + (IF StdExceeds(Values(SubSeq(v, 1, 13)), 50) THEN 20000 ELSE 0)

\* C4: for an 18-element vector of numbers fallback_detection returns
\* min(1.0, 0.3*[rms < 0.02] + 0.2*[centroid < 2000 or centroid > 5000]
\* + 0.2*[std of the 13 MFCC means > 50]), every comparison strict; RMS 0.01,
\* centroid 1000 and MFCC std 60 score exactly 0.7.
C4_HeuristicIsSumOfThreeRules ==
    (hres.done /\ Len(hvec) = 18 /\ AllNumbers(hvec)) =>
        /\ ~hres.exc
        /\ hres.val = Min(100000, RuleSum(hvec))
        /\ (hvec[15] = Num(20) /\ hvec[16] \in {Num(2000), Num(3000), Num(5000)}
            /\ SubSeq(hvec, 1, 13) = MfccStd50) => hres.val = 0
        /\ (hvec[15] = Num(10) /\ hvec[16] = Num(1000)
            /\ SubSeq(hvec, 1, 13) = MfccStd60) => hres.val = 70000

C4_Witness ==
    /\ hres.done
    /\ hvec = FeaturesAllRules
    /\ hres.val = 70000

\* C5: whatever the length and content of the vector, the value returned by
\* fallback_detection lies in [0, 1].
C5_HeuristicInUnitInterval ==
    hres.done => (hres.val >= 0 /\ hres.val <= 100000)

C5_Witness ==
    /\ hres.done
    /\ Len(hvec) = 19
    /\ hvec[14] = Obj /\ hvec[19] = Obj
    /\ hres.val = 70000

\* C6: given fewer than 18 features fallback_detection returns exactly 0.5,
\* whatever the vector holds.
C6_ShortVectorIsNeutral ==
    (hres.done /\ Len(hvec) < 18) => (~hres.exc /\ hres.val = 50000)

C6_Witness ==
    /\ hres.done
    /\ Len(hvec) = 17
    /\ SubSeq(hvec, 1, 13) = MfccStd60
    /\ hvec[15] = Num(10) /\ hvec[16] = Num(1000)
    /\ hres.val = 50000

\* An element the rules compare or average is not a number or NaN.
RuleFails(v) == \E i \in (1..13) \cup {15, 16} : v[i].k = "obj"

\* C7: fallback_detection never raises to its caller and always returns a
\* probability; when evaluating a rule fails it returns the neutral 0.5.
C7_HeuristicFailsOpen ==
    hres.done =>
        /\ ~hres.exc
        /\ hres.val \in 0..100000
        /\ (Len(hvec) >= 18 /\ RuleFails(hvec)) => hres.val = 50000

C7_Witness ==
    /\ hres.done
    /\ Len(hvec) = 18
    /\ hvec[15] = Obj
    /\ ~hres.exc
    /\ hres.val = 50000

HeuristicOnly == utils_imported /\ (model = "None" \/ scaler = "None")

\* C8: when the audio model or scaler is absent after the import of utils.py
\* the backend is heuristic-only from then on: no step changes model or scaler
\* once the module is imported, and every classified audio request got its
\* probability from fallback_detection(features) with no inference invoked.
C8_HeuristicOnlyForLifetime ==
    /\ [](HeuristicOnly =>
            \A w \in Workers :
                (req[w].handler \in AudioHandlers /\ Classified(w)) =>
                    /\ req[w].inference = "none"
                    /\ req[w].fallback
                    /\ req[w].probability = fallback_detection(req[w].features).val)
    /\ [][utils_imported => (model' = model /\ scaler' = scaler)]_vars

C8_Witness ==
    /\ HeuristicOnly
    /\ \E w, x \in Workers :
        /\ w # x
        /\ AudioDone(w) /\ req[w].fallback /\ req[w].probability = 70000
        /\ AudioDone(x) /\ req[x].fallback /\ req[x].probability = 0

\* C9: the model and the scaler are used as a pair or not at all: inference
\* has been invoked for a request only if both objects of its mode are loaded;
\* with exactly one loaded, neither is used.
C9_PairOrNothing ==
    \A w \in Workers :
        req[w].inference # "none" =>
            IF req[w].handler = "values_predict"
            THEN values_model = "loaded" /\ values_scaler = "loaded"
            ELSE model = "loaded" /\ scaler = "loaded"

C9_Witness ==
    /\ model = "loaded" /\ scaler = "None"
    /\ values_model = "loaded" /\ values_scaler = "None"
    /\ \E w, x \in Workers :
        /\ AudioDone(w) /\ req[w].inference = "none" /\ req[w].fallback
        /\ req[x].handler = "values_predict" /\ req[x].stage = "Failed"
        /\ req[x].error = "unavailable" /\ req[x].inference = "none"

\* C10: in audio mode with model and scaler loaded, a request whose scaling or
\* inference raises is not failed: it goes on with the heuristic score of its
\* own features and completes with a label; the loaded pair stays loaded, and
\* a request received afterwards is served by the model when inference succeeds.
C10_InferenceFailureFallsThrough ==
    /\ ml_failed => (model = "loaded" /\ scaler = "loaded")
    /\ \A w \in Workers :
        req[w].handler \in AudioHandlers =>
            /\ req[w].error # "detection"
            /\ req[w].inference = "raised" =>
                /\ Classified(w)
                /\ req[w].fallback
                /\ req[w].probability = fallback_detection(req[w].features).val
                /\ req[w].stage = "Completed" => req[w].result \in Labels
            /\ (req[w].inference = "ok" /\ Classified(w)) =>
                /\ ~req[w].fallback
                /\ req[w].probability \in ModelProbabilities

C10_Witness ==
    \E w, x \in Workers :
        /\ AudioDone(w) /\ req[w].inference = "raised"
        /\ req[w].probability = 70000 /\ req[w].result = "parkinson"
        /\ AudioDone(x) /\ req[x].after_failure /\ req[x].inference = "ok"
        /\ req[x].probability = 65000 /\ req[x].result = "healthy"

\* The values model or its scaler is missing.
ValuesUnusable == values_model = "None" \/ values_scaler = "None"

\* C11: while the values model or its scaler is missing, a values request is
\* answered "unavailable" before anything is computed: no heuristic, no
\* probability, no label, no response of a detection, no DetectionHistory row
\* of values mode and so no hospital or email row of one; and the model and
\* the scaler stay as the import left them.
C11_ValuesModeUnavailable ==
    /\ [](ValuesUnusable =>
            /\ \A w \in Workers :
                 (req[w].handler = "values_predict" /\ req[w].stage # "Received") =>
                     /\ req[w].stage = "Failed"
                     /\ req[w].error = "unavailable"
                     /\ req[w].inference = "none"
                     /\ ~req[w].fallback
                     /\ req[w].probability = 0
                     /\ req[w].result = "none"
                     /\ resp[w] = NoResponse
            /\ \A id \in 1..Len(detections) : detections[id].test_type # "values"
            /\ \A row \in suggested : row.detection \in 1..Len(detections)
            /\ \A row \in emails : row.detection \in 1..Len(detections))
    /\ [][values_model' = values_model /\ values_scaler' = values_scaler]_vars

C11_Witness ==
    /\ ValuesUnusable
    /\ Len(detections) = 1
    /\ emails # {}
    /\ \E w \in Workers :
         /\ req[w].handler = "values_predict"
         /\ req[w].stage = "Failed"
         /\ req[w].error = "unavailable"

\* C12: a values request that did not post all 22 values is rejected and the
\* scaler and the model are not called for it.
C12_ShortVectorRejected ==
    \A w \in Workers :
        (req[w].handler = "values_predict" /\ req[w].supplied # 22
         /\ req[w].stage # "Received") =>
            /\ req[w].stage = "Failed"
            /\ req[w].inference = "none"

\* The request has been through extract_features.
Extracted(w) == io[w].read # NoFile

\* C13: a .webm input goes through convert_webm_to_wav before extract_features
\* and extract_features loads the converted file; a .wav input is never
\* converted and extract_features loads the file that was saved.
C13_WebmConvertedBeforeExtraction ==
    \A w \in Workers :
        /\ req[w].stage = "Normalizing" => req[w].ext = "webm"
        /\ req[w].ext = "wav" => io[w].wav = NoFile
        /\ (req[w].ext = "webm" /\ (req[w].stage = "Extracting" \/ Extracted(w))) =>
               /\ io[w].wav = wav_path(io[w].temp)
               /\ io[w].wav.ext = "wav"
        /\ (Extracted(w) /\ req[w].ext = "webm") => io[w].read = io[w].wav
        /\ (Extracted(w) /\ req[w].ext = "wav") => io[w].read = io[w].temp

C13_Witness ==
    \E w, x \in Workers :
        /\ req[w].ext = "webm" /\ req[w].stage = "Classifying"
        /\ io[w].read = io[w].wav /\ io[w].read.ext = "wav"
        /\ req[x].ext = "wav" /\ req[x].stage = "Classifying"
        /\ io[x].read = io[x].temp /\ io[x].wav = NoFile

Terminal == {"Completed", "Failed"}

\* The stages of a request in their order: all six for a .webm input, without
\* Normalizing for a .wav input, without Normalizing and Extracting in values
\* mode.
StagePath(r) ==
    IF r.handler = "values_predict"
    THEN <<"Received", "Classifying", "Thresholding", "Completed">>
    ELSE IF r.ext = "webm"
    THEN <<"Received", "Normalizing", "Extracting", "Classifying",
           "Thresholding", "Completed">>
    ELSE <<"Received", "Extracting", "Classifying", "Thresholding", "Completed">>

\* The stage after r.stage on the path of r.
NextStage(r) ==
    LET path == StagePath(r)
        i == CHOOSE j \in 1..Len(path) : path[j] = r.stage
    IN  path[i + 1]

\* One step of one request.
StageStep(r, r2) ==
    IF r.stage = "Idle" THEN r2.stage \in {"Received", "Failed"}
    ELSE IF r.stage \in Terminal THEN r2 = NoRequest
    ELSE /\ r2.handler = r.handler
         /\ r2.ext = r.ext
         /\ r2.stage = "Failed" \/ r2.stage = NextStage(r)

FailedIn(w, kind) == req[w].error = kind

\* C15: a request whose conversion or extraction failed is Failed for good:
\* it has no features from a later extraction, no model or heuristic
\* probability, no label and no confidence, and its only step is the end of
\* the request.
C15_StageFailureIsTerminal ==
    /\ [](\A w \in Workers :
            (FailedIn(w, "conversion") \/ FailedIn(w, "extraction")) =>
                /\ req[w].stage = "Failed"
                /\ req[w].features = <<>>
                /\ req[w].inference = "none"
                /\ ~req[w].fallback
                /\ req[w].result = "none"
                /\ req[w].confidence = 0)
    /\ [][\A w \in Workers :
            (FailedIn(w, "conversion") \/ FailedIn(w, "extraction")) =>
                req'[w] \in {req[w], NoRequest}]_vars

C15_Witness ==
    \E w, x \in Workers :
        /\ FailedIn(w, "conversion") /\ req[w].stage = "Failed"
        /\ FailedIn(x, "extraction") /\ req[x].stage = "Failed"

\* C16: when the response of an audio request is returned, the temporary file
\* the request saved and the file convert_webm_to_wav made for it are gone.
C16_TemporaryFilesRemoved ==
    [][\A w \in Workers :
         (req[w].stage \in Terminal /\ req'[w].stage = "Idle") =>
             /\ io[w].temp \notin files'
             /\ io[w].wav \notin files']_vars

\* C17: a request fails in conversion or extraction only when its own audio
\* cannot be decoded, whatever other requests have left or are doing.
C17_OutcomeFromOwnInput ==
    \A w \in Workers :
        (FailedIn(w, "conversion") \/ FailedIn(w, "extraction")) =>
            io[w].content = "corrupt"

\* The threshold of the mode of a request.
ThresholdOf(r) == IF r.handler = "values_predict" THEN 75000 ELSE 65000
AboveThreshold(r) == r.probability > ThresholdOf(r)
HasSuggestions(id) == \E row \in suggested : row.detection = id

\* C18: in both modes the label of a detection, returned and stored, is
\* 'parkinson' exactly when the probability is above the threshold of the mode
\* and the confidence is the rounded probability, whatever class predict()
\* gave; hospitals are suggested and listed only above the threshold.
C18_LabelFromThresholdAlone ==
    \A w \in Workers :
        req[w].stage = "Completed" =>
            /\ req[w].result = "parkinson" <=> AboveThreshold(req[w])
            /\ req[w].result = "healthy" <=> ~AboveThreshold(req[w])
            /\ req[w].confidence = round2(req[w].probability)
            /\ resp[w].sent =>
                 LET row == detections[resp[w].detection_id]
                 IN  /\ row.detection_result = "parkinson" <=> AboveThreshold(req[w])
                     /\ row.detection_result = "healthy" <=> ~AboveThreshold(req[w])
                     /\ row.confidence = round2(req[w].probability)
                     /\ HasSuggestions(resp[w].detection_id) => AboveThreshold(req[w])
                     /\ resp[w].hospitals # {} => AboveThreshold(req[w])

C18_Witness ==
    \E w, x \in Workers :
        /\ AudioDone(w) /\ resp[w].sent /\ req[w].inference = "ok"
        /\ req[w].prediction = 1 /\ req[w].result = "healthy"
        /\ ~HasSuggestions(resp[w].detection_id)
        /\ ValuesDone(x) /\ resp[x].sent
        /\ req[x].prediction = 0 /\ req[x].result = "parkinson"
        /\ HasSuggestions(resp[x].detection_id)

\* C19: every SuggestedHospital row belongs to a detection labelled
\* 'parkinson'; a response lists hospitals only for 'parkinson'; a 'healthy'
\* detection has no row and an empty list; a 'parkinson' detection has rows
\* and a list when the Hospital table has any hospital.
C19_HospitalsOnlyForParkinson ==
    /\ \A row \in suggested :
         /\ row.detection \in 1..Len(detections)
         /\ detections[row.detection].detection_result = "parkinson"
    /\ \A w \in Workers :
         resp[w].sent =>
             /\ req[w].handler \in AudioHandlers \cup {"values_predict"}
             /\ resp[w].hospitals # {} => req[w].result = "parkinson"
             /\ req[w].result = "healthy" =>
                    /\ resp[w].hospitals = {}
                    /\ ~HasSuggestions(resp[w].detection_id)
             /\ (req[w].result = "parkinson" /\ hospitals # <<>>) =>
                    /\ resp[w].hospitals # {}
                    /\ HasSuggestions(resp[w].detection_id)

C19_Witness ==
    \E w, x \in Workers :
        /\ resp[w].sent /\ req[w].result = "healthy" /\ hospitals # <<>>
        /\ resp[w].hospitals = {} /\ ~HasSuggestions(resp[w].detection_id)
        /\ resp[x].sent /\ req[x].result = "parkinson"
        /\ resp[x].hospitals # {} /\ HasSuggestions(resp[x].detection_id)

\* The hospitals of a list.
Listed(top) == {top[i] : i \in 1..Len(top)}

\* C20: suggest_top_hospitals returns min(limit, number of hospitals)
\* different hospitals, the rating never rising along the list and no hospital
\* left out rated above one in it; save_suggested_hospitals stores exactly one
\* row per returned hospital, the i-th with rank i.
C20_TopHospitalsRanked ==
    hcall.done =>
        LET top == hcall.top
        IN  /\ Len(top) <= hcall.limit
            /\ Len(top) = Min(hcall.limit, Len(hospitals))
            /\ Listed(top) \subseteq hospital_ids(hospitals)
            /\ \A i, j \in 1..Len(top) :
                 /\ i < j => hospitals[top[i]] >= hospitals[top[j]]
                 /\ i # j => top[i] # top[j]
            /\ \A h \in hospital_ids(hospitals) \ Listed(top) :
                 \A i \in 1..Len(top) : hospitals[h] <= hospitals[top[i]]
            /\ Cardinality(suggested) = Len(top)
            /\ \A row \in suggested :
                 /\ row.detection = hcall.detection_id
                 /\ row.rank \in 1..Len(top)
                 /\ row.hospital = top[row.rank]
            /\ \A a, b \in suggested : a.hospital = b.hospital => a = b

C20_Witness ==
    /\ hcall.done
    /\ hospitals = <<45, 48, 45, 47>>
    /\ hcall.limit = 2
    /\ hcall.top = <<2, 4>>
    /\ suggested = {[detection |-> 1, hospital |-> 2, rank |-> 1],
                    [detection |-> 1, hospital |-> 4, rank |-> 2]}

\* The outcome of values_predict for a vector under the loaded objects.
ValuesOutcome(vector) ==
    [probability |-> values_artifact[vector],
     result |-> label_of(values_artifact[vector], values_threshold),
     confidence |-> confidence_of(values_artifact[vector])]

\* The outcome a request of values_predict has produced.
OutcomeOf(w) ==
    [probability |-> req[w].probability, result |-> req[w].result,
     confidence |-> req[w].confidence]

Collected(w) ==
    /\ req[w].handler = "values_predict"
    /\ req[w].stage \notin {"Idle", "Received"}

\* The stored records.
Records == <<detections, suggested, emails>>

\* C26: values_predict builds exactly 22 values in the order of
\* VALUES_FEATURE_NAMES, 0 for each feature the form leaves out; a form with a
\* value that cannot be parsed is answered 400 naming the first such feature,
\* and nothing is scaled, inferred, recorded, suggested or mailed for it.
C26_ValuesVectorOrInvalid ==
    /\ [](\A w \in Workers :
            Collected(w) =>
                IF posted[w].invalid = {}
                THEN /\ Len(req[w].features) = 22
                     /\ \A i \in 1..22 :
                          req[w].features[i] =
                              Num(IF i \in posted[w].given THEN i ELSE 0)
                ELSE /\ req[w].stage = "Failed"
                     /\ resp[w].status = 400
                     /\ \A i \in posted[w].invalid : resp[w].feature <= i
                     /\ resp[w].feature \in posted[w].invalid
                     /\ req[w].inference = "none"
                     /\ req[w].result = "none"
                     /\ ~resp[w].sent
                     /\ resp[w].detection_id = 0
                     /\ resp[w].hospitals = {})
    /\ [][Records' # Records =>
            \E w \in Workers :
                /\ Collected(w) /\ posted[w].invalid = {}
                /\ req[w].stage = "Completed"
                /\ ~resp[w].sent /\ resp'[w].sent]_vars

C26_Witness ==
    \E w, x \in Workers :
        /\ Collected(w) /\ posted[w].invalid = {3, 9}
        /\ req[w].stage = "Failed" /\ resp[w].status = 400 /\ resp[w].feature = 3
        /\ detections = <<>>
        /\ Collected(x) /\ posted[x] = [given |-> 1..21, invalid |-> {}]
        /\ req[x].stage = "Thresholding"
        /\ req[x].features[21] = Num(21) /\ req[x].features[22] = Num(0)

\* A request of an audio handler ended in the except branch of its handler.
Excepted(w) ==
    /\ req[w].handler \in AudioHandlers
    /\ req[w].stage = "Failed"
    /\ req[w].error \in {"conversion", "extraction"}

\* C22: a failed request is reported with an error kind that the failing stage
\* determines and the text of the exception does not: failures of the same
\* stage are reported alike, failures of different stages differently.
C22_ErrorKindByStage ==
    \A w, x \in Workers :
        (Excepted(w) /\ Excepted(x)) =>
            (req[w].error = req[x].error <=> resp[w].error = resp[x].error)

\* C23: the message of the except branch of upload_audio and
\* record_and_detect is the first match on the text of the exception: 'model'
\* or 'scaler', else 'audio' or 'format', else 'ffmpeg', else the generic one;
\* so the conversion message is given only to a text with 'ffmpeg' and none of
\* the other four words.
C23_MessageByFirstMatch ==
    \A w \in Workers :
        Excepted(w) =>
            LET text == resp[w].debug_error
                initializing == "model" \in text \/ "scaler" \in text
                unsupported == "audio" \in text \/ "format" \in text
            IN  /\ resp[w].status = 500
                /\ resp[w].error \in {INITIALIZING, UNSUPPORTED, CONVERSION, GENERIC}
                /\ resp[w].error = INITIALIZING <=> initializing
                /\ resp[w].error = UNSUPPORTED <=> (~initializing /\ unsupported)
                /\ resp[w].error = CONVERSION <=>
                       ("ffmpeg" \in text
                        /\ text \cap {"model", "scaler", "audio", "format"} = {})
                /\ resp[w].error = GENERIC <=> text \cap Keywords = {}

C23_Witness ==
    \E w, x \in Workers :
        /\ Excepted(w) /\ req[w].error = "conversion"
        /\ resp[w].debug_error = {"ffmpeg", "audio"} /\ resp[w].error = UNSUPPORTED
        /\ Excepted(x) /\ req[x].error = "conversion"
        /\ resp[x].debug_error = {"ffmpeg"} /\ resp[x].error = CONVERSION

\* All three rules of the heuristic fire on an 18-element vector: RMS below
\* 0.02, spectral centroid outside [2000, 5000], standard deviation of the 13
\* MFCC means above 50.
ThreeRulesFire(v) ==
    /\ Len(v) = 18
    /\ \A i \in (1..13) \cup {15, 16} : v[i].k = "num"
    /\ v[15].v < 20
    /\ v[16].v < 2000 \/ v[16].v > 5000
    /\ StdExceeds(Values(SubSeq(v, 1, 13)), 50)

\* The label detect_parkinson gives the value of the heuristic (utils.py:182-187).
HeuristicLabel == label_of(hres.val, threshold)

\* C24: without a model the label of a vector of at most 18 elements is
\* 'parkinson' exactly when all three rules fire on 18 elements (0.7 > 0.65);
\* at most two rules (at most 0.5), fewer than 18 features and an error inside
\* the heuristic (0.5) are 'healthy'.
C24_HeuristicLabel ==
    (hres.done /\ model = "None" /\ Len(hvec) <= 18) =>
        /\ HeuristicLabel = "parkinson" <=> ThreeRulesFire(hvec)
        /\ ThreeRulesFire(hvec) => hres.val = 70000
        /\ ~ThreeRulesFire(hvec) => (hres.val <= 50000 /\ HeuristicLabel = "healthy")
        /\ Len(hvec) < 18 => (hres.val = 50000 /\ HeuristicLabel = "healthy")
        /\ (Len(hvec) = 18 /\ RuleFails(hvec)) =>
               (hres.val = 50000 /\ HeuristicLabel = "healthy")

C24_Witness ==
    /\ hres.done
    /\ model = "None"
    /\ hvec = MkVector(18, MfccStdAbove50, Num(0), Num(19), Num(5001), Num(0))
    /\ hres.val = 70000
    /\ HeuristicLabel = "parkinson"

\* The value the three rules give what was measured, read from the
\* measurement itself.
MeasuredScore ==
    (IF measured.rms.k = "num" /\ measured.rms.v < 20 THEN 30000 ELSE 0)
    + (IF measured.centroid.k = "num"
          /\ (measured.centroid.v < 2000 \/ measured.centroid.v > 5000)
       THEN 20000 ELSE 0)
    + (IF (\A i \in 1..13 : measured.mfcc[i].k = "num")
          /\ StdExceeds(Values(measured.mfcc), 50)
       THEN 20000 ELSE 0)

\* C25: extract_features returns exactly 18 values, the 13 MFCC means, then
\* zero crossing rate, RMS, spectral centroid, spectral bandwidth and spectral
\* rolloff; fallback_detection reads the MFCC means at indices 0-12, the RMS
\* at index 14 and the centroid at index 15 of that vector, so its rules are
\* evaluated on the measured MFCC means, RMS and centroid.
C25_HeuristicReadsExtractorPositions ==
    /\ measured.taken =>
           /\ Len(hvec) = 18
           /\ SubSeq(hvec, 1, 13) = measured.mfcc
           /\ hvec[14] = measured.zcr
           /\ hvec[15] = measured.rms
           /\ hvec[16] = measured.centroid
           /\ hvec[17] = measured.bandwidth
           /\ hvec[18] = measured.rolloff
    /\ (measured.taken /\ hres.done) =>
           (~hres.exc /\ hres.val = MeasuredScore)

C25_Witness ==
    /\ measured.taken
    /\ hres.done
    /\ measured.mfcc = MfccStd60
    /\ measured.zcr = Num(1) /\ measured.rms = Num(21)
    /\ measured.centroid = Num(5001)
    /\ measured.bandwidth = Num(10) /\ measured.rolloff = Num(1000)
    /\ hres.val = 40000

\* A request failed before a label and confidence were produced.
FailedEarly(w) == req[w].stage = "Failed" /\ req[w].result = "none"

\* C27: a DetectionHistory row, and any SuggestedHospital or EmailReport row,
\* is created only for a request that has its label and confidence; the row
\* holds the label and confidence that are returned; a request that fails in
\* conversion, extraction, validation or inference leaves the stored records
\* as they were.
C27_PersistedAfterPipeline ==
    /\ [](\A w \in Workers :
            resp[w].sent =>
                /\ req[w].stage = "Completed"
                /\ req[w].result \in {"healthy", "parkinson"}
                /\ resp[w].detection_id \in 1..Len(detections)
                /\ detections[resp[w].detection_id].detection_result = req[w].result
                /\ detections[resp[w].detection_id].confidence = req[w].confidence)
    /\ [](\A row \in suggested \cup emails : row.detection \in 1..Len(detections))
    /\ [][Records' # Records =>
            \E w \in Workers :
                /\ req[w].stage = "Completed" /\ req'[w] = req[w]
                /\ req[w].result \in {"healthy", "parkinson"}
                /\ ~resp[w].sent /\ resp'[w].sent
                /\ detections' = Append(detections,
                                        [test_type |-> test_type(req[w].handler),
                                         detection_result |-> req[w].result,
                                         confidence |-> req[w].confidence])]_vars
    /\ [][\A w \in Workers :
            (req'[w] # req[w] /\ (FailedEarly(w) \/ FailedEarly(w)'))
                => Records' = Records]_vars

C27_Witness ==
    \E w, x \in Workers :
        /\ FailedEarly(w) /\ req[w].error = "extraction"
        /\ resp[x].sent /\ req[x].handler = "values_predict"
        /\ Len(detections) = 1
        /\ detections[1] = [test_type |-> "values", detection_result |-> "parkinson",
                            confidence |-> 7510]
        /\ \E row \in emails : row.detection = 1
        /\ \E row \in suggested : row.detection = 1

\* The EmailReport rows of a detection.
ReportsOf(id) == {row \in emails : row.detection = id}

\* C28: send_detection_report_email does not raise: whatever happens to the
\* mail, the detection that was stored is answered with the success response.
\* It returns True exactly when the mail was sent and the 'sent' EmailReport
\* was created; otherwise it returns False and leaves at most one 'failed'
\* EmailReport.  No detection ever has more than one EmailReport.
C28_EmailReportOutcome ==
    /\ [](\A w \in Workers :
            resp[w].sent =>
                LET reports == ReportsOf(resp[w].detection_id)
                IN  /\ resp[w].status = 200
                    /\ resp[w].email_returned <=>
                           (resp[w].email_delivered
                            /\ \E row \in reports : row.status = "sent")
                    /\ ~resp[w].email_returned =>
                           /\ \A row \in reports : row.status = "failed"
                           /\ Cardinality(reports) <= 1)
    /\ [](\A id \in 1..Len(detections) : Cardinality(ReportsOf(id)) <= 1)
    /\ [](\A row \in emails : row.detection \in 1..Len(detections))
    /\ [][detections' # detections =>
            \E w \in Workers :
                /\ ~resp[w].sent /\ resp'[w].sent
                /\ resp'[w].status = 200
                /\ resp'[w].detection_id = Len(detections')]_vars

C28_Witness ==
    \E w, x \in Workers :
        /\ resp[w].sent /\ resp[w].status = 200
        /\ resp[w].email_delivered /\ ~resp[w].email_returned
        /\ ReportsOf(resp[w].detection_id) =
               {[detection |-> resp[w].detection_id, status |-> "failed"]}
        /\ resp[x].sent /\ resp[x].email_returned
        /\ ReportsOf(resp[x].detection_id) =
               {[detection |-> resp[x].detection_id, status |-> "sent"]}

\* How many hospitals of a table have this rating.
CountOf(table, rating) == Cardinality({i \in 1..Len(table) : table[i] = rating})

\* C29: seeding is idempotent and for staff only: whatever seeding calls ran
\* and however they interleaved, the Hospital table holds at most one copy of
\* the sample hospitals; a caller of the view who is not staff is answered 403
\* and creates nothing.
C29_SeedingIdempotent ==
    /\ Len(hospitals) <= Len(get_sample_hospitals)
    /\ \A rating \in 0..50 :
         CountOf(hospitals, rating) <= CountOf(get_sample_hospitals, rating)
    /\ \A c \in Seeders :
         (seed[c].via = "view" /\ ~seed[c].staff) =>
             (seed[c].pc = "done" /\ seed[c].status = 403)

\* The detections of a user.
OwnedBy(u) == {id \in 1..Len(detections) : detections[id].user = u}

\* C30: history, detection_detail and download_report return a detection, its
\* suggested hospitals and its email report only to the user the detection
\* belongs to; the id of another user's detection is answered not-found with
\* nothing in the page, as an id that does not exist is, whatever detections
\* the users have created.
C30_DetectionsOwnerOnly ==
    /\ [](page.done =>
            /\ page.detections \subseteq OwnedBy(page.user)
            /\ \A row \in page.hospitals \cup page.email_report :
                 row.detection \in OwnedBy(page.user)
            /\ page.user = "anonymous" =>
                   (page.status = 302 /\ page.detections = {})
            /\ page.status # 200 =>
                   /\ page.detections = {}
                   /\ page.hospitals = {}
                   /\ page.email_report = {}
            /\ (page.view \in {"detection_detail", "download_report"}
                /\ page.detection_id \in 1..Len(detections)
                /\ detections[page.detection_id].user # page.user) =>
                   page.status \in {404, 302})
    /\ [][(page' # page /\ page'.user \in Users
           /\ page'.view \in {"detection_detail", "download_report"}) =>
            IF page'.detection_id \in OwnedBy(page'.user)
            THEN /\ page'.status = 200
                 /\ page'.detections = {page'.detection_id}
            ELSE page'.status = 404]_vars

C30_Witness ==
    /\ page.done
    /\ page.view = "detection_detail"
    /\ page.user = "bob"
    /\ page.detection_id = 1
    /\ page.status = 404
    /\ Len(detections) = 2
    /\ detections[1].user = "alice" /\ detections[1].detection_result = "parkinson"
    /\ detections[2].user = "bob"
    /\ \E row \in suggested : row.detection = 1
    /\ \E row \in emails : row.detection = 1

====
